---- MODULE Spec2Model ----
(***************************************************************************)
(* A model of the NotJS interpreter pipeline: the recursive-descent        *)
(* parser with its integrated Resolver (src/src/parser/mod.rs,             *)
(* src/src/parser/resolver.rs), the Environment                            *)
(* (src/src/interpreter/environment.rs), the evaluator                     *)
(* (src/src/interpreter/evaluate.rs, execute.rs, common/function.rs,       *)
(* common/value.rs) and Interpreter::interpret (src/src/interpreter/mod.rs)*)
(*                                                                         *)
(* The parser works on the token sequence the Scanner yields.  Numbers are *)
(* exact rationals n/d (d = 0 encodes the IEEE specials), strings are      *)
(* sequences of one-character strings.                                     *)
(***************************************************************************)
EXTENDS Integers, Sequences, FiniteSets, TLC

VARIABLES source, phase, parser, statements, errors, pc, environment, out, log, outcome,
          previous, scanner

vars == <<source, phase, parser, statements, errors, pc, environment, out, log, outcome,
          previous, scanner>>

(***************************************************************************)
(* Bounds of the model.                                                    *)
(***************************************************************************)
\* longest program, in statements drawn from Fragments
MaxStmts == 2
\* longest source drawn token by token from Alphabet
MaxTokens == 3
\* depth of nested execute/evaluate calls after which the native stack is
\* taken to be exhausted
MaxFuel == 40
\* largest operand of the arithmetic expressions drawn from Arithmetic
MaxOperand == 3
\* deepest scope stack of the Resolver driven call by call
MaxScopes == 3
\* longest text of the String operands drawn from Values
MaxText == 2
\* longest source the Scanner is run on, in bytes
MaxBytes == 4

(***************************************************************************)
(* Value (common/value.rs)                                                 *)
(***************************************************************************)
Null == [t |-> "Null"]
Rat(n, d) == [t |-> "Number", v |-> n, d |-> d]
Number(n) == Rat(n, 1)
String(s) == [t |-> "String", v |-> s]
Boolean(b) == [t |-> "Boolean", v |-> b]
Array(a) == [t |-> "Array", v |-> a]
FunctionValue(f) == [t |-> "Function", v |-> f]

Abs(n) == IF n < 0 THEN -n ELSE n

RECURSIVE Gcd(_, _)
Gcd(a, b) == IF b = 0 THEN a ELSE Gcd(b, a % b)

\* a finite f64 as a normalised fraction
Norm(n, d) == LET g == Gcd(Abs(n), d) IN Rat(n \div g, d \div g)

NaN == Rat(0, 0)
Inf(sign) == Rat(sign, 0)
IsNaN(x) == x.d = 0 /\ x.v = 0
IsInf(x) == x.d = 0 /\ x.v # 0
Sign(n) == IF n < 0 THEN -1 ELSE IF n > 0 THEN 1 ELSE 0

NumAdd(a, b) ==
    IF IsNaN(a) \/ IsNaN(b) THEN NaN
    ELSE IF IsInf(a) THEN (IF IsInf(b) /\ b.v # a.v THEN NaN ELSE a)
    ELSE IF IsInf(b) THEN b
    ELSE Norm(a.v * b.d + b.v * a.d, a.d * b.d)

NumNeg(a) == Rat(-a.v, a.d)

NumMul(a, b) ==
    IF IsNaN(a) \/ IsNaN(b) THEN NaN
    ELSE IF IsInf(a) \/ IsInf(b)
         THEN (IF a.v = 0 \/ b.v = 0 THEN NaN ELSE Inf(Sign(a.v) * Sign(b.v)))
    ELSE Norm(a.v * b.v, a.d * b.d)

NumDiv(a, b) ==
    NumMul(a, IF IsNaN(b) THEN NaN
              ELSE IF IsInf(b) THEN Rat(0, 1)
              ELSE IF b.v = 0 THEN Inf(1)
              ELSE Rat(Sign(b.v) * b.d, Abs(b.v)))

NumEq(a, b) == ~IsNaN(a) /\ ~IsNaN(b) /\ a.v = b.v /\ a.d = b.d

NumLess(a, b) ==
    /\ ~IsNaN(a) /\ ~IsNaN(b)
    /\ IF IsInf(a) THEN a.v < 0 /\ ~(IsInf(b) /\ b.v < 0)
       ELSE IF IsInf(b) THEN b.v > 0
       ELSE a.v * b.d < b.v * a.d

is_truthy(x) ==
    CASE x.t = "Null" -> FALSE
      [] x.t = "Number" -> ~NumEq(x, Number(0))
      [] x.t = "String" -> x.v # <<>>
      [] x.t = "Boolean" -> x.v
      [] x.t = "Array" -> x.v # <<>>
      [] x.t = "Function" -> TRUE

RECURSIVE ValueEq(_, _)
ValueEq(a, b) ==
    CASE a.t = "Null" /\ b.t = "Null" -> TRUE
      [] a.t = "Number" /\ b.t = "Number" -> NumEq(a, b)
      [] a.t = "String" /\ b.t = "String" -> a.v = b.v
      [] a.t = "Boolean" /\ b.t = "Boolean" -> a.v = b.v
      [] a.t = "Array" /\ b.t = "Array" ->
            /\ Len(a.v) = Len(b.v)
            /\ \A i \in 1..Len(a.v) : ValueEq(a.v[i], b.v[i])
      [] OTHER -> FALSE

(***************************************************************************)
(* Token (common/token.rs): the type tag and the payload.                  *)
(***************************************************************************)
Tok(tt) == [tt |-> tt, v |-> Null]
Id(name) == [tt |-> "Identifier", v |-> String(name)]
Num(n) == [tt |-> "Number", v |-> Number(n)]

(***************************************************************************)
(* Scanner (lexer.rs).  The source is a sequence of bytes; pos is the      *)
(* index of the byte source_iter yields next.  scanner.tokens records the  *)
(* tokens next() has returned: the type, the payload before its conversion *)
(* to a Value (a sequence of bytes), the line, and first, the index of the *)
(* token's first byte.                                                     *)
(***************************************************************************)
\* newline, space, ", *, /, 1, \ and a
Bytes == {10, 32, 34, 42, 47, 49, 92, 97}

ByteSequences == UNION {[1..n -> Bytes] : n \in 0..MaxBytes}

Scanner_new(bytes) == [source |-> bytes, pos |-> 1, line |-> 1, tokens |-> <<>>]

\* source_iter.peek(): -1 for None
Scanner_peek(sc) == IF sc.pos <= Len(sc.source) THEN sc.source[sc.pos] ELSE -1

\* source_iter.next()
Advance(sc) == [sc EXCEPT !.pos = @ + 1]

\* the scanner after it has returned Token::new(token_type, value, scanner.line)
Token_new(sc, token_type, value, first) ==
    [sc EXCEPT !.tokens = Append(@, [tt |-> token_type, value |-> value,
                                     line |-> sc.line, first |-> first])]

\* while let Some(byte of bytes) = source_iter.peek() { source_iter.next() }
RECURSIVE TakeWhile(_, _)
TakeWhile(sc, bytes) ==
    IF Scanner_peek(sc) \in bytes THEN TakeWhile(Advance(sc), bytes) ELSE sc

skip_spaces(sc) == TakeWhile(sc, {32, 9, 13})

RECURSIVE skip_single_line_comment(_)
skip_single_line_comment(sc) ==
    IF Scanner_peek(sc) = -1 THEN sc
    ELSE IF Scanner_peek(sc) = 10 THEN [Advance(sc) EXCEPT !.line = @ + 1]
    ELSE skip_single_line_comment(Advance(sc))

RECURSIVE skip_multi_line_comment(_, _)
skip_multi_line_comment(sc, depth) ==
    IF Scanner_peek(sc) = -1 THEN sc
    ELSE LET chr == Scanner_peek(sc)
             rest == Advance(sc)
         IN CASE chr = 47 ->
                    IF Scanner_peek(rest) = 42
                    THEN skip_multi_line_comment(Advance(rest), depth + 1)
                    ELSE skip_multi_line_comment(rest, depth)
              [] chr = 42 ->
                    IF Scanner_peek(rest) # 47 THEN skip_multi_line_comment(rest, depth)
                    ELSE IF depth - 1 = 0 THEN Advance(rest)
                    ELSE skip_multi_line_comment(Advance(rest), depth - 1)
              [] chr = 10 ->
                    skip_multi_line_comment([rest EXCEPT !.line = @ + 1], depth)
              [] OTHER -> skip_multi_line_comment(rest, depth)

\* number, the first digit consumed: digits, an optional '.', digits
number(sc, first) ==
    LET whole == TakeWhile(sc, 48..57)
        dot == IF Scanner_peek(whole) = 46 THEN Advance(whole) ELSE whole
        end == TakeWhile(dot, 48..57)
    IN Token_new(end, "Number", SubSeq(sc.source, first, end.pos - 1), first)

\* string, the opening quote consumed; str_value is the text read so far
RECURSIVE string(_, _, _, _)
string(sc, first_char, str_value, first) ==
    IF Scanner_peek(sc) = -1 THEN Token_new(sc, "String", str_value, first)
    ELSE LET chr == Scanner_peek(sc)
             rest == IF chr = 10 THEN [Advance(sc) EXCEPT !.line = @ + 1]
                     ELSE Advance(sc)
             escape == Scanner_peek(rest)
         IN IF chr = first_char THEN Token_new(Advance(sc), "String", str_value, first)
            ELSE IF chr # 92 THEN string(rest, first_char, Append(str_value, chr), first)
            ELSE CASE escape = 110 ->
                        string(Advance(rest), first_char, Append(str_value, 10), first)
                   [] escape = 116 ->
                        string(Advance(rest), first_char, Append(str_value, 9), first)
                   [] escape \in {92, 39, 34} ->
                        string(Advance(rest), first_char, Append(str_value, escape), first)
                   [] escape = 48 ->
                        string(Advance(rest), first_char, Append(str_value, 0), first)
                   [] escape = 114 ->
                        string(Advance(rest), first_char, Append(str_value, 13), first)
                   [] escape = -1 -> Token_new(rest, "Error", <<>>, first)
                   [] OTHER -> Token_new(Advance(rest), "Error", <<escape>>, first)

\* lexer::identifier, the first byte consumed.  No word of KEYWORDS is spelled with
\* the letters of Bytes, so KEYWORDS.get answers None.
lexer_identifier(sc, first) ==
    LET end == TakeWhile(sc, (48..57) \cup (97..122) \cup (65..90) \cup {95})
    IN Token_new(end, "Identifier", SubSeq(sc.source, first, end.pos - 1), first)

\* Scanner::next; a call that returns None leaves scanner.tokens as it was
RECURSIVE Scanner_next(_)
Scanner_next(scanner0) ==
    LET sc == skip_spaces(scanner0)
        chr == Scanner_peek(sc)
        first == sc.pos
        rest == Advance(sc)
        Lexeme(token_type) == Token_new(rest, token_type, <<chr>>, first)
        \* a token of one byte, or of two when the next byte is '='
        OrEqual(token_type, with_equal) ==
            IF Scanner_peek(rest) = 61
            THEN Token_new(Advance(rest), with_equal, <<chr, 61>>, first)
            ELSE Lexeme(token_type)
    IN CASE chr = -1 -> sc
         [] chr = 10 -> [Token_new(rest, "Newline", <<92, 110>>, first)
                           EXCEPT !.line = @ + 1]
         [] chr \in 48..57 -> number(rest, first)
         [] chr \in {34, 39} -> string(rest, chr, <<>>, first)
         [] chr \in (97..122) \cup (65..90) \cup {95} -> lexer_identifier(rest, first)
         [] chr = 38 -> Lexeme("And")
         [] chr = 124 -> Lexeme("Or")
         [] chr = 40 -> Lexeme("LeftParentheses")
         [] chr = 41 -> Lexeme("RightParentheses")
         [] chr = 123 -> Lexeme("LeftBrace")
         [] chr = 125 -> Lexeme("RightBrace")
         [] chr = 91 -> Lexeme("LeftBracket")
         [] chr = 93 -> Lexeme("RightBracket")
         [] chr = 44 -> Lexeme("Comma")
         [] chr = 46 -> Lexeme("Dot")
         [] chr = 63 -> Lexeme("QuestionMark")
         [] chr = 58 -> Lexeme("Colon")
         [] chr = 59 -> Lexeme("Semicolon")
         [] chr = 43 -> OrEqual("Plus", "PlusEqual")
         [] chr = 45 -> OrEqual("Minus", "MinusEqual")
         [] chr = 42 -> OrEqual("Star", "StarEqual")
         [] chr = 47 ->
                CASE Scanner_peek(rest) = 47 ->
                        Scanner_next(skip_single_line_comment(Advance(rest)))
                  [] Scanner_peek(rest) = 42 ->
                        Scanner_next(skip_multi_line_comment(Advance(rest), 1))
                  [] OTHER -> OrEqual("Slash", "SlashEqual")
         [] chr = 33 -> OrEqual("Bang", "BangEqual")
         [] chr = 61 -> OrEqual("Equal", "EqualEqual")
         [] chr = 62 -> OrEqual("Greater", "GreaterEqual")
         [] chr = 60 -> OrEqual("Less", "LessEqual")
         [] OTHER -> Lexeme("Error")

(***************************************************************************)
(* ParseError (error/parse.rs) and the parser's results.                   *)
(***************************************************************************)
Single(kind, at) == [multi |-> FALSE, errors |-> <<[kind |-> kind, at |-> at]>>]
Multiple(errs) == [multi |-> TRUE, errors |-> errs]
NoError == [multi |-> FALSE, errors |-> <<>>]
NoNode == [k |-> "None"]

POk(p, node) == [ok |-> TRUE, p |-> p, node |-> node, err |-> NoError]
PErr(p, err) == [ok |-> FALSE, p |-> p, node |-> NoNode, err |-> err]

(***************************************************************************)
(* Resolver (parser/resolver.rs).  A scope maps a name to                  *)
(* Variable {mutable, defined}.                                            *)
(***************************************************************************)
EmptyMap == [n \in {} |-> Null]

Insert(map, name, entry) ==
    [n \in DOMAIN map \cup {name} |-> IF n = name THEN entry ELSE map[n]]

Resolver_new == <<EmptyMap>>
Resolver_push(scopes) == Append(scopes, EmptyMap)
Resolver_pop(scopes) == SubSeq(scopes, 1, Len(scopes) - 1)

\* the scopes after the insertion; the index returned is Len(scopes) - 1
Resolver_declare(scopes, name, mutable, defined) ==
    [scopes EXCEPT ![Len(scopes)] =
        Insert(@, name, [mutable |-> mutable, defined |-> defined])]

\* the 1-based position of the innermost scope holding name, 0 when none
RECURSIVE InnermostScope(_, _, _)
InnermostScope(scopes, name, i) ==
    IF i = 0 THEN 0
    ELSE IF name \in DOMAIN scopes[i] THEN i
    ELSE InnermostScope(scopes, name, i - 1)

\* define deciding on the first scope, innermost first, whose entry of the
\* name is mutable
Resolver_define_mutable(scopes, name) ==
    IF \A i \in DOMAIN scopes : name \notin DOMAIN scopes[i]
    THEN [ok |-> FALSE, kind |-> "UndeclaredVariable", index |-> 0]
    ELSE IF \E i \in DOMAIN scopes : name \in DOMAIN scopes[i] /\ scopes[i][name].mutable
    THEN [ok |-> TRUE, kind |-> "",
          index |-> (CHOOSE i \in DOMAIN scopes :
                        /\ name \in DOMAIN scopes[i] /\ scopes[i][name].mutable
                        /\ \A j \in DOMAIN scopes :
                              (name \in DOMAIN scopes[j] /\ scopes[j][name].mutable) => j <= i) - 1]
    ELSE [ok |-> FALSE, kind |-> "ImmutableVariable", index |-> 0]

Resolver_define(scopes, name) ==
    LET i == InnermostScope(scopes, name, Len(scopes)) IN
    IF i = 0 THEN [ok |-> FALSE, kind |-> "UndeclaredVariable", index |-> 0]
    ELSE IF scopes[i][name].mutable THEN [ok |-> TRUE, kind |-> "", index |-> i - 1]
    ELSE [ok |-> FALSE, kind |-> "ImmutableVariable", index |-> 0]

\* resolve without the test of defined: every declared name can be read
Resolver_resolve_declared(scopes, name) ==
    LET i == InnermostScope(scopes, name, Len(scopes)) IN
    IF i = 0 THEN [ok |-> FALSE, kind |-> "UndeclaredVariable"]
    ELSE [ok |-> TRUE, kind |-> ""]

\* resolve with every scope that holds the name looked at: the name can be
\* read when any of its entries is defined
Resolver_resolve_any(scopes, name) ==
    IF \A i \in DOMAIN scopes : name \notin DOMAIN scopes[i]
    THEN [ok |-> FALSE, kind |-> "UndeclaredVariable"]
    ELSE IF \E i \in DOMAIN scopes : name \in DOMAIN scopes[i] /\ scopes[i][name].defined
    THEN [ok |-> TRUE, kind |-> ""]
    ELSE [ok |-> FALSE, kind |-> "UninitializedVariable"]

Resolver_resolve(scopes, name) ==
    LET i == InnermostScope(scopes, name, Len(scopes)) IN
    IF i = 0 THEN [ok |-> FALSE, kind |-> "UndeclaredVariable"]
    ELSE IF scopes[i][name].defined THEN [ok |-> TRUE, kind |-> ""]
    ELSE [ok |-> FALSE, kind |-> "UninitializedVariable"]

(***************************************************************************)
(* Parser (parser/mod.rs).  The parser state p holds the token stream, the *)
(* position of the next token, the Resolver's scopes and the record of the *)
(* Resolver calls made so far.                                             *)
(***************************************************************************)
Parser_new(toks) == [toks |-> toks, pos |-> 1, scopes |-> Resolver_new, rlog |-> <<>>]

\* the type of the next token, "EOF" for None
peek(p) == IF p.pos <= Len(p.toks) THEN p.toks[p.pos].tt ELSE "EOF"

next(p) == IF p.pos <= Len(p.toks) THEN [p EXCEPT !.pos = @ + 1] ELSE p

begin_scope(p) == [p EXCEPT !.scopes = Resolver_push(@)]
end_scope(p) == [p EXCEPT !.scopes = Resolver_pop(@)]

consume(p, ttype) ==
    IF peek(p) = "EOF" THEN PErr(p, Single("UnexpectedEof", p.pos))
    ELSE IF peek(p) = ttype THEN POk(next(p), p.toks[p.pos])
    ELSE PErr(p, Single("MissingToken", p.pos))

StatementStart == {"Class", "Function", "Let", "Const", "If", "While", "Print",
                   "Return", "LeftBrace"}

\* synchronize consuming the token it stops at
RECURSIVE synchronize_consuming(_)
synchronize_consuming(p) ==
    IF peek(p) = "EOF" THEN p
    ELSE IF peek(p) \in StatementStart THEN next(p)
    ELSE synchronize_consuming(next(p))

RECURSIVE synchronize(_)
synchronize(p) ==
    IF peek(p) = "EOF" \/ peek(p) \in StatementStart THEN p
    ELSE synchronize(next(p))

\* the records the parser keeps of its Resolver calls
Resolved(p, name, r) ==
    [p EXCEPT !.rlog = Append(@, [ev |-> "resolve", name |-> name, pos |-> p.pos,
                                   scopes |-> p.scopes, ok |-> r.ok, kind |-> r.kind])]
Defined(p, name, r) ==
    [p EXCEPT !.rlog = Append(@, [ev |-> "define", name |-> name,
                                   scopes |-> p.scopes, ok |-> r.ok, kind |-> r.kind,
                                   index |-> r.index])]
Declared(p, name, mutable, defined) ==
    [p EXCEPT !.scopes = Resolver_declare(@, name, mutable, defined),
              !.rlog = Append(@, [ev |-> "declare", name |-> name, pos |-> p.pos,
                                   scopes |-> p.scopes, index |-> Len(p.scopes) - 1])]

\* the binary levels with * and / at the level of + and -
LevelOperators_flat(level) ==
    CASE level = 1 -> {"Or"}
      [] level = 2 -> {"And"}
      [] level = 3 -> {"EqualEqual", "BangEqual"}
      [] level = 4 -> {"Less", "LessEqual", "Greater", "GreaterEqual"}
      [] level = 5 -> {"Plus", "Minus", "Star", "Slash"}
      [] level = 6 -> {}

\* the operator tokens of the binary levels, lowest precedence first
LevelOperators(level) ==
    CASE level = 1 -> {"Or"}
      [] level = 2 -> {"And"}
      [] level = 3 -> {"EqualEqual", "BangEqual"}
      [] level = 4 -> {"Less", "LessEqual", "Greater", "GreaterEqual"}
      [] level = 5 -> {"Plus", "Minus"}
      [] level = 6 -> {"Star", "Slash"}

is_identifier(node) == node.k = "Identifier"

RECURSIVE assignment_expression(_), conditional_expression(_), binary_level(_, _),
          binary_loop(_, _, _), unary_expression(_), postfix_expression(_),
          postfix_loop(_, _), primary_expression(_), expression_list(_, _),
          expression_list_loop(_, _)

expression(p) == assignment_expression(p)

\* assignment_expression after the value: AssignmentExpression::new
assignment_value(name, scope, operator, value) ==
    IF ~value.ok THEN value
    ELSE POk(value.p, [k |-> "Assignment", name |-> name, operator |-> operator,
                       value |-> value.node, scope |-> scope])

\* assignment_expression after its conditional_expression c
\* assignment_expression taking whatever stands before the operator as the
\* target: Resolver.define is called for an identifier only
assignment_operator_any(c) ==
    IF ~c.ok THEN c
    ELSE IF peek(c.p) \in {"Equal", "PlusEqual", "MinusEqual", "StarEqual", "SlashEqual"}
    THEN IF is_identifier(c.node)
         THEN LET d == Resolver_define(c.p.scopes, c.node.name) IN
              IF ~d.ok
              THEN PErr(Defined(c.p, c.node.name, d), Single(d.kind, c.p.pos))
              ELSE assignment_value(c.node.name, d.index, peek(c.p),
                        assignment_expression(next(Defined(c.p, c.node.name, d))))
         ELSE assignment_value("", 0, peek(c.p), assignment_expression(next(c.p)))
    ELSE c

assignment_operator(c) ==
    IF ~c.ok THEN c
    ELSE IF peek(c.p) \in {"Equal", "PlusEqual", "MinusEqual", "StarEqual", "SlashEqual"}
    THEN IF is_identifier(c.node)
         THEN LET d == Resolver_define(c.p.scopes, c.node.name) IN
              IF ~d.ok
              THEN PErr(Defined(c.p, c.node.name, d), Single(d.kind, c.p.pos))
              ELSE assignment_value(c.node.name, d.index, peek(c.p),
                        assignment_expression(next(Defined(c.p, c.node.name, d))))
         ELSE PErr(next(c.p), Single("ExpectedIdentifierBefore", c.p.pos))
    ELSE c

assignment_expression(p) == assignment_operator(conditional_expression(p))

conditional_expression(p) ==
    LET \* conditional_expression after the else branch
        conditional_else(condition, then_branch, else_branch) ==
            IF ~else_branch.ok THEN else_branch
            ELSE POk(else_branch.p, [k |-> "Conditional", condition |-> condition,
                                     then_branch |-> then_branch,
                                     else_branch |-> else_branch.node])
        \* conditional_expression after the then branch
        conditional_then(condition, then_branch) ==
            IF ~then_branch.ok THEN then_branch
            ELSE LET colon == consume(then_branch.p, "Colon") IN
                 IF ~colon.ok THEN colon
                 ELSE conditional_else(condition, then_branch.node,
                                       conditional_expression(colon.p))
        \* conditional_expression after its logical_or_expression c
        conditional_question(c) ==
            IF ~c.ok THEN c
            ELSE IF peek(c.p) = "QuestionMark"
            THEN conditional_then(c.node, expression(next(c.p)))
            ELSE c
    IN  conditional_question(binary_level(p, 1))

\* a binary level after its first operand
binary_first(first, level) ==
    IF ~first.ok THEN first ELSE binary_loop(first.p, first.node, level)

\* one binary level: an operand of the next level, then { operator operand }
binary_level(p, level) ==
    IF level = 7 THEN unary_expression(p)
    ELSE binary_first(binary_level(p, level + 1), level)

\* a binary level after the right operand: BinaryExpression::new
binary_right(left, operator, right, level) ==
    IF ~right.ok THEN right
    ELSE binary_loop(right.p, [k |-> "Binary", left |-> left, operator |-> operator,
                               right |-> right.node], level)

binary_loop(p, left, level) ==
    IF peek(p) \in LevelOperators(level)
    THEN binary_right(left, peek(p), binary_level(next(p), level + 1), level)
    ELSE POk(p, left)

\* unary_expression after its operand: UnaryExpression::new
unary_right(operator, right) ==
    IF ~right.ok THEN right
    ELSE POk(right.p, [k |-> "Unary", operator |-> operator, right |-> right.node])

unary_expression(p) ==
    IF peek(p) \in {"Minus", "Bang"}
    THEN unary_right(peek(p), unary_expression(next(p)))
    ELSE postfix_expression(p)

expression_list_next(elements, e) ==
    IF ~e.ok THEN e ELSE expression_list_loop(e.p, Append(elements, e.node))

\* [ first { "," element } ] up to, not including, the closing token
expression_list(p, closing) ==
    IF peek(p) = closing THEN POk(p, <<>>)
    ELSE expression_list_next(<<>>, expression(p))

expression_list_loop(p, elements) ==
    IF peek(p) = "Comma"
    THEN expression_list_next(elements, expression(next(p)))
    ELSE POk(p, elements)

\* postfix_expression after its primary_expression
postfix_primary(e) == IF ~e.ok THEN e ELSE postfix_loop(e.p, e.node)

postfix_expression(p) == postfix_primary(primary_expression(p))

postfix_index(left, index) ==
    IF ~index.ok THEN index
    ELSE LET close == consume(index.p, "RightBracket") IN
         IF ~close.ok THEN close
         ELSE postfix_loop(close.p, [k |-> "Postfix", left |-> left,
                                     operator |-> [k |-> "Index",
                                                   index |-> index.node]])

postfix_call(left, arguments) ==
    IF ~arguments.ok THEN arguments
    ELSE LET close == consume(arguments.p, "RightParentheses") IN
         IF ~close.ok THEN close
         ELSE postfix_loop(close.p, [k |-> "Postfix", left |-> left,
                                     operator |-> [k |-> "Call",
                                                   arguments |-> arguments.node]])

postfix_loop(p, left) ==
    CASE peek(p) = "LeftBracket" -> postfix_index(left, expression(next(p)))
      [] peek(p) = "Dot" ->
            LET name == consume(next(p), "Identifier") IN
            IF ~name.ok THEN name
            ELSE postfix_loop(name.p, [k |-> "Postfix", left |-> left,
                                       operator |-> [k |-> "Dot",
                                                     name |-> name.node.v.v]])
      [] peek(p) = "LeftParentheses" ->
            postfix_call(left, expression_list(next(p), "RightParentheses"))
      [] OTHER -> POk(p, left)

\* primary_expression after the expression in parentheses
primary_group(e) ==
    IF ~e.ok THEN e
    ELSE LET close == consume(e.p, "RightParentheses") IN
         IF ~close.ok THEN close ELSE POk(close.p, e.node)

\* primary_expression after the elements of an array literal
primary_array(elements) ==
    IF ~elements.ok THEN elements
    ELSE LET close == consume(elements.p, "RightBracket") IN
         IF ~close.ok THEN close
         ELSE POk(close.p, [k |-> "ArrayLiteral", elements |-> elements.node])

\* self.next() comes before the match on the token: the token is consumed
\* whatever it is
\* primary_expression leaving a token it cannot start with unconsumed
primary_expression_peeking(p) ==
    IF peek(p) = "EOF" THEN PErr(p, Single("UnexpectedEof", p.pos))
    ELSE LET token == p.toks[p.pos] IN
         CASE token.tt = "Identifier" ->
                LET r == Resolver_resolve(p.scopes, token.v.v) IN
                IF ~r.ok
                THEN PErr(Resolved(next(p), token.v.v, r), Single(r.kind, p.pos))
                ELSE POk(Resolved(next(p), token.v.v, r),
                         [k |-> "Identifier", name |-> token.v.v])
           [] token.tt \in {"Number", "String", "True", "False"} ->
                POk(next(p), [k |-> "Literal", v |-> token.v])
           [] token.tt = "LeftParentheses" -> primary_group(expression(next(p)))
           [] token.tt = "LeftBracket" ->
                primary_array(expression_list(next(p), "RightBracket"))
           [] OTHER -> PErr(p, Single("ExpectedPrimary", p.pos))

primary_expression(p) ==
    IF peek(p) = "EOF" THEN PErr(p, Single("UnexpectedEof", p.pos))
    ELSE LET token == p.toks[p.pos] IN
         CASE token.tt = "Identifier" ->
                LET r == Resolver_resolve(p.scopes, token.v.v) IN
                IF ~r.ok
                THEN PErr(Resolved(next(p), token.v.v, r), Single(r.kind, p.pos))
                ELSE POk(Resolved(next(p), token.v.v, r),
                         [k |-> "Identifier", name |-> token.v.v])
           [] token.tt \in {"Number", "String", "True", "False"} ->
                POk(next(p), [k |-> "Literal", v |-> token.v])
           [] token.tt = "LeftParentheses" -> primary_group(expression(next(p)))
           [] token.tt = "LeftBracket" ->
                primary_array(expression_list(next(p), "RightBracket"))
           [] OTHER -> PErr(next(p), Single("ExpectedPrimary", p.pos))

(***************************************************************************)
(* Statements (parser/mod.rs).                                             *)
(***************************************************************************)
RECURSIVE statement(_), block(_), block_loop(_, _, _), variable_declaration(_),
          function_statement(_), parameter_loop(_, _), print_statement(_),
          if_statement(_), while_statement(_), return_statement(_),
          expression_statement(_)

statement(p) ==
    CASE peek(p) = "EOF" -> PErr(p, Single("UnexpectedEof", p.pos))
      [] peek(p) = "LeftBrace" -> block(next(p))
      [] peek(p) \in {"Let", "Const"} -> variable_declaration(p)
      [] peek(p) = "Function" -> function_statement(next(p))
      [] peek(p) \in {"Print", "Println"} -> print_statement(p)
      [] peek(p) = "If" -> if_statement(next(p))
      [] peek(p) = "While" -> while_statement(next(p))
      [] peek(p) = "Return" -> return_statement(next(p))
      [] OTHER -> expression_statement(p)

block(p) == block_loop(begin_scope(p), <<>>, <<>>)

\* the match on self.statement() in the loop of block
block_statement(s, stmts, errs) ==
    IF s.ok THEN block_loop(s.p, Append(stmts, s.node), errs)
    ELSE block_loop(synchronize(s.p), stmts, errs \o s.err.errors)

\* the while loop of block and what follows it
block_loop(p, stmts, errs) ==
    IF peek(p) \in {"EOF", "RightBrace"}
    THEN LET end == IF peek(p) = "RightBrace" THEN end_scope(next(p)) ELSE p IN
         IF errs # <<>> THEN PErr(end, Multiple(errs))
         ELSE POk(end, [k |-> "Block", statements |-> stmts])
    ELSE block_statement(statement(p), stmts, errs)

\* variable_declaration after the initializer: resolver.declare and
\* VariableDeclaration::new
variable_initializer(mutable, name, defined, initializer) ==
    IF ~initializer.ok THEN initializer
    ELSE POk(Declared(initializer.p, name, mutable, defined),
             [k |-> "VariableDeclaration", mutable |-> mutable, name |-> name,
              initializer |-> IF defined THEN <<initializer.node>> ELSE <<>>,
              scope |-> Len(initializer.p.scopes) - 1])

\* variable_declaration with resolver.declare called right after the
\* identifier, before the initializer is parsed
variable_declared_first(mutable, name, defined, scope, initializer) ==
    IF ~initializer.ok THEN initializer
    ELSE POk(initializer.p,
             [k |-> "VariableDeclaration", mutable |-> mutable, name |-> name,
              initializer |-> IF defined THEN <<initializer.node>> ELSE <<>>,
              scope |-> scope])

variable_declaration_first(p) ==
    LET identifier == consume(next(p), "Identifier")
        defined == peek(identifier.p) = "Equal"
        declared == Declared(identifier.p, identifier.node.v.v, peek(p) = "Let", defined)
    IN IF ~identifier.ok THEN identifier
       ELSE variable_declared_first(peek(p) = "Let", identifier.node.v.v, defined,
                                    Len(identifier.p.scopes) - 1,
                                    IF defined THEN expression(next(declared))
                                    ELSE POk(declared, NoNode))

variable_declaration(p) ==
    LET identifier == consume(next(p), "Identifier") IN
    IF ~identifier.ok THEN identifier
    ELSE variable_initializer(peek(p) = "Let", identifier.node.v.v,
                              peek(identifier.p) = "Equal",
                              IF peek(identifier.p) = "Equal"
                              THEN expression(next(identifier.p))
                              ELSE POk(identifier.p, NoNode))

\* { "," identifier } of the parameter list
parameter_loop(p, parameters) ==
    IF peek(p) = "Comma"
    THEN LET param == consume(next(p), "Identifier") IN
         IF ~param.ok THEN param
         ELSE parameter_loop(param.p, Append(parameters, param.node.v.v))
    ELSE POk(p, parameters)

RECURSIVE DeclareAll(_, _, _)
DeclareAll(p, parameters, i) ==
    IF i > Len(parameters) THEN p
    ELSE DeclareAll(Declared(p, parameters[i], TRUE, TRUE), parameters, i + 1)

function_statement(p) ==
    LET \* function_statement after the body: end_scope and FunctionDeclaration::new
        function_body(name, parameters, body) ==
            IF ~body.ok THEN body
            ELSE POk(end_scope(body.p), [k |-> "FunctionDeclaration", name |-> name,
                                         parameters |-> parameters, body |-> body.node])
        \* function_statement after the parameter list: resolver.declare of each,
        \* consume(RightParentheses), consume(LeftBrace), block
        function_parameters(name, parameters) ==
            IF ~parameters.ok THEN parameters
            ELSE LET close == consume(DeclareAll(parameters.p, parameters.node, 1),
                                      "RightParentheses")
                     brace == consume(close.p, "LeftBrace")
                 IN IF ~close.ok THEN close
                    ELSE IF ~brace.ok THEN brace
                    ELSE function_body(name, parameters.node, block(brace.p))
        \* function_statement after begin_scope: the parameter list
        function_scope(name, scope) ==
            IF peek(scope) = "RightParentheses"
            THEN function_parameters(name, POk(scope, <<>>))
            ELSE LET first == consume(scope, "Identifier") IN
                 IF ~first.ok THEN first
                 ELSE function_parameters(name, parameter_loop(first.p, <<first.node.v.v>>))
    IN
    LET name == consume(p, "Identifier")
        open == consume(Declared(name.p, name.node.v.v, FALSE, TRUE), "LeftParentheses")
    IN IF ~name.ok THEN name
       ELSE IF ~open.ok THEN open
       ELSE function_scope(name.node.v.v, begin_scope(open.p))

expression_statement(p) ==
    LET expression_value(e) ==
            IF ~e.ok THEN e
            ELSE POk(e.p, [k |-> "ExpressionStatement", expression |-> e.node])
    IN  expression_value(expression(p))

print_statement(p) ==
    LET print_value(new_line, e) ==
            IF ~e.ok THEN e
            ELSE POk(e.p, [k |-> "PrintStatement", expression |-> e.node,
                           new_line |-> new_line])
    IN  print_value(peek(p) = "Println", expression(next(p)))

if_statement(p) ==
    LET \* if_statement after the else branch
        if_else(condition, then_branch, else_branch) ==
            IF ~else_branch.ok THEN else_branch
            ELSE POk(else_branch.p, [k |-> "IfStatement", condition |-> condition,
                                     then_branch |-> then_branch,
                                     else_branch |-> <<else_branch.node>>])
        \* if_statement after the then branch
        if_then(condition, then_branch) ==
            IF ~then_branch.ok THEN then_branch
            ELSE IF peek(then_branch.p) = "Else"
            THEN if_else(condition, then_branch.node, statement(next(then_branch.p)))
            ELSE POk(then_branch.p, [k |-> "IfStatement", condition |-> condition,
                                     then_branch |-> then_branch.node, else_branch |-> <<>>])
        \* if_statement after the condition
        if_condition(condition) ==
            IF ~condition.ok THEN condition
            ELSE if_then(condition.node, statement(condition.p))
    IN  if_condition(expression(p))

while_statement(p) ==
    LET while_body(condition, body) ==
            IF ~body.ok THEN body
            ELSE POk(body.p, [k |-> "WhileStatement", condition |-> condition,
                              body |-> body.node])
        while_condition(condition) ==
            IF ~condition.ok THEN condition
            ELSE while_body(condition.node, statement(condition.p))
    IN  while_condition(expression(p))

return_statement(p) ==
    LET return_value(e) ==
            IF ~e.ok THEN e ELSE POk(e.p, [k |-> "ReturnStatement", value |-> <<e.node>>])
    IN
    IF peek(p) = "Null" THEN POk(next(p), [k |-> "ReturnStatement", value |-> <<>>])
    ELSE return_value(expression(p))

(***************************************************************************)
(* Value operators (common/value.rs) and RuntimeError (error/runtime.rs).  *)
(* An operator result is [ok, v]: ok = FALSE is                            *)
(* Err(RuntimeError "Invalid Operands").                                   *)
(***************************************************************************)
Digit(n) == <<"0", "1", "2", "3", "4", "5", "6", "7", "8", "9">>[n + 1]

RECURSIVE Digits(_)
Digits(n) == IF n < 10 THEN <<Digit(n)>> ELSE Append(Digits(n \div 10), Digit(n % 10))

\* the decimal digits of rem/d, at most k of them
RECURSIVE Fraction(_, _, _)
Fraction(rem, d, k) ==
    IF rem = 0 \/ k = 0 THEN <<>>
    ELSE <<Digit((rem * 10) \div d)>> \o Fraction((rem * 10) % d, d, k - 1)

\* f64::to_string
to_string(x) ==
    IF IsNaN(x) THEN <<"N", "a", "N">>
    ELSE IF IsInf(x) THEN (IF x.v < 0 THEN <<"-">> ELSE <<>>) \o <<"i", "n", "f">>
    ELSE IF x.d = 1 THEN (IF x.v < 0 THEN <<"-">> ELSE <<>>) \o Digits(Abs(x.v))
    ELSE (IF x.v < 0 THEN <<"-">> ELSE <<>>) \o Digits(Abs(x.v) \div x.d)
         \o <<".">> \o Fraction(Abs(x.v) % x.d, x.d, 16)

VOk(v) == [ok |-> TRUE, v |-> v]
VErr == [ok |-> FALSE, v |-> Null]

Value_add(a, b) ==
    CASE a.t = "Number" /\ b.t = "Number" -> VOk(NumAdd(a, b))
      [] a.t = "String" /\ b.t = "String" -> VOk(String(a.v \o b.v))
      [] a.t = "Number" /\ b.t = "String" -> VOk(String(b.v \o to_string(a)))
      [] a.t = "String" /\ b.t = "Number" -> VOk(String(a.v \o to_string(b)))
      [] OTHER -> VErr

Value_sub(a, b) ==
    IF a.t = "Number" /\ b.t = "Number" THEN VOk(NumAdd(a, NumNeg(b))) ELSE VErr

Value_mul(a, b) ==
    IF a.t = "Number" /\ b.t = "Number" THEN VOk(NumMul(a, b)) ELSE VErr

Value_div(a, b) ==
    IF a.t = "Number" /\ b.t = "Number" THEN VOk(NumDiv(a, b)) ELSE VErr

Value_neg(a) == IF a.t = "Number" THEN VOk(NumNeg(a)) ELSE VErr

Value_not(a) == Boolean(~is_truthy(a))

\* the byte order of the characters the model's strings are made of
CharCode(c) ==
    LET chars == <<"-", ".", "0", "1", "2", "3", "4", "5", "6", "7", "8", "9",
                   "N", "_", "a", "b", "c", "e", "f", "h", "i", "l", "n", "o", "x">>
    IN CHOOSE i \in 1..Len(chars) : chars[i] = c

RECURSIVE StringLess(_, _)
StringLess(a, b) ==
    IF b = <<>> THEN FALSE
    ELSE IF a = <<>> THEN TRUE
    ELSE IF CharCode(Head(a)) # CharCode(Head(b)) THEN CharCode(Head(a)) < CharCode(Head(b))
    ELSE StringLess(Tail(a), Tail(b))

\* partial_cmp: "Less", "Equal", "Greater" or "None"
partial_cmp(a, b) ==
    CASE a.t = "Number" /\ b.t = "Number" ->
            IF NumLess(a, b) THEN "Less" ELSE IF NumLess(b, a) THEN "Greater"
            ELSE IF NumEq(a, b) THEN "Equal" ELSE "None"
      [] a.t = "String" /\ b.t = "String" ->
            IF StringLess(a.v, b.v) THEN "Less" ELSE IF StringLess(b.v, a.v) THEN "Greater"
            ELSE "Equal"
      [] a.t = "Boolean" /\ b.t = "Boolean" ->
            IF a.v = b.v THEN "Equal" ELSE IF b.v THEN "Less" ELSE "Greater"
      [] OTHER -> "None"

RuntimeError(kind) == [kind |-> kind, expected |-> 0, found |-> 0]
ArityError(expected, found) ==
    [kind |-> "ArityMismatch", expected |-> expected, found |-> found]
NoRuntimeError == RuntimeError("")

(***************************************************************************)
(* Environment (interpreter/environment.rs).  A frame maps a name to       *)
(* Variable {mutable, value}; value is <<>> for None and <<v>> for Some(v).*)
(* A result is [k, env, v, e] with k one of "Ok", "Err", "Panic".          *)
(***************************************************************************)
Environment_new == <<EmptyMap>>
Environment_push(env) == Append(env, EmptyMap)
Environment_pop(env) == SubSeq(env, 1, Len(env) - 1)

Environment_define(env, name, value, mutable) ==
    [env EXCEPT ![Len(env)] = Insert(@, name, [mutable |-> mutable, value |-> value])]

Environment_assign(env, name, value, index) ==
    IF index + 1 > Len(env)
    THEN [k |-> "Panic", env |-> env, e |-> RuntimeError("IndexOutOfBounds")]
    ELSE IF name \in DOMAIN env[index + 1]
    THEN IF ~env[index + 1][name].mutable
         THEN [k |-> "Err", env |-> env, e |-> RuntimeError("ImmutableVariable")]
         ELSE [k |-> "Ok", env |-> [env EXCEPT ![index + 1][name].value = <<value>>],
               e |-> NoRuntimeError]
    ELSE [k |-> "Err", env |-> env, e |-> RuntimeError("UndeclaredVariable")]

\* the 1-based position of the innermost frame holding name, 0 when none
RECURSIVE InnermostFrame(_, _, _)
InnermostFrame(env, name, i) ==
    IF i = 0 THEN 0
    ELSE IF name \in DOMAIN env[i] THEN i
    ELSE InnermostFrame(env, name, i - 1)

Environment_get(env, name) ==
    LET i == InnermostFrame(env, name, Len(env)) IN
    IF i = 0 THEN [k |-> "Err", v |-> Null, e |-> RuntimeError("UndeclaredVariable")]
    ELSE IF env[i][name].value # <<>>
    THEN [k |-> "Ok", v |-> env[i][name].value[1], e |-> NoRuntimeError]
    ELSE [k |-> "Err", v |-> Null, e |-> RuntimeError("UndefinedVariable")]

(***************************************************************************)
(* The evaluator (interpreter/evaluate.rs, interpreter/execute.rs,         *)
(* common/function.rs).  The evaluation state s holds the Environment, the *)
(* values printed and a record of what was done, in order.  A result is    *)
(* [k, s, v, e]: k = "Ok" with the value v, k = "Err" with the             *)
(* RuntimeError e, k = "Panic" when the thread panics (an unwrap of an     *)
(* Err, an index out of range, the native stack exhausted).                *)
(***************************************************************************)
Ok(s, v) == [k |-> "Ok", s |-> s, v |-> v, e |-> NoRuntimeError]
Err(s, e) == [k |-> "Err", s |-> s, v |-> Null, e |-> e]
Panic(s, kind) == [k |-> "Panic", s |-> s, v |-> Null, e |-> RuntimeError(kind)]

Logged(s, event) == [s EXCEPT !.log = Append(@, event)]

\* (l op r).unwrap() of the arithmetic operators
Unwrap(s, r) == IF r.ok THEN Ok(s, r.v) ELSE Panic(s, "UnwrapInvalidOperands")

\* num as usize
as_usize(x) ==
    IF IsNaN(x) THEN 0
    ELSE IF IsInf(x) THEN (IF x.v > 0 THEN -1 ELSE 0)
    ELSE IF x.v < 0 THEN 0 ELSE x.v \div x.d

\* the 0-based position an index expression selects in a string or array of
\* length len, -1 when the subtraction or the cast leaves the usize range
index_of(len, num) ==
    IF NumLess(num, Number(0))
    THEN LET a == as_usize(NumNeg(num)) IN
         IF a = -1 \/ a > len THEN -1 ELSE len - a
    ELSE as_usize(num)

\* Environment::get as Identifier and the compound assignments call it
Get(s, name) ==
    LET r == Environment_get(s.env, name)
        s1 == Logged(s, [ev |-> "get", name |-> name, env |-> s.env, k |-> r.k,
                         kind |-> r.e.kind, v |-> r.v])
    IN IF r.k = "Ok" THEN Ok(s1, r.v) ELSE Err(s1, r.e)

\* Environment::assign as AssignmentExpression calls it
Assign(s, name, value, index) ==
    LET r == Environment_assign(s.env, name, value, index)
        s1 == Logged([s EXCEPT !.env = r.env],
                     [ev |-> "assign", name |-> name, value |-> value,
                      index |-> index, before |-> s.env, after |-> r.env,
                      k |-> r.k, kind |-> r.e.kind])
    IN [k |-> r.k, s |-> s1, v |-> value, e |-> r.e]

RECURSIVE evaluate(_, _, _), execute(_, _, _), evaluate_all(_, _, _, _, _),
          execute_all(_, _, _, _, _), while_loop(_, _, _, _), Function_call(_, _, _, _),
          define_parameters(_, _, _, _)

AssignmentExpression_evaluate(node, s, fuel) ==
    LET \* AssignmentExpression::evaluate after self.value.evaluate(environment)?
        AssignmentExpression_value(value) ==
            IF value.k # "Ok" THEN value
            ELSE IF node.operator = "Equal"
            THEN Assign(value.s, node.name, value.v, node.scope)
            ELSE LET left == Get(value.s, node.name)
                     r == CASE node.operator = "PlusEqual" -> Value_add(left.v, value.v)
                            [] node.operator = "MinusEqual" -> Value_sub(left.v, value.v)
                            [] node.operator = "StarEqual" -> Value_mul(left.v, value.v)
                            [] node.operator = "SlashEqual" -> Value_div(left.v, value.v)
                 IN IF left.k # "Ok" THEN left
                    ELSE IF ~r.ok THEN Panic(left.s, "UnwrapInvalidOperands")
                    ELSE Assign(left.s, node.name, r.v, node.scope)
    IN
    AssignmentExpression_value(evaluate(node.value, s, fuel))

ConditionalExpression_evaluate(node, s, fuel) ==
    LET ConditionalExpression_condition(condition) ==
            IF condition.k # "Ok" THEN condition
            ELSE IF is_truthy(condition.v) THEN evaluate(node.then_branch, condition.s, fuel)
            ELSE evaluate(node.else_branch, condition.s, fuel)
    IN
    ConditionalExpression_condition(evaluate(node.condition, s, fuel))

\* the match on the operator, both operands evaluated
binary_operator(s, operator, left, right) ==
    CASE operator = "Plus" -> Unwrap(s, Value_add(left, right))
      [] operator = "Minus" -> Unwrap(s, Value_sub(left, right))
      [] operator = "Star" -> Unwrap(s, Value_mul(left, right))
      [] operator = "Slash" -> Unwrap(s, Value_div(left, right))
      [] operator = "EqualEqual" -> Ok(s, Boolean(ValueEq(left, right)))
      [] operator = "BangEqual" -> Ok(s, Boolean(~ValueEq(left, right)))
      [] operator = "Greater" -> Ok(s, Boolean(partial_cmp(left, right) = "Greater"))
      [] operator = "GreaterEqual" ->
            Ok(s, Boolean(partial_cmp(left, right) \in {"Greater", "Equal"}))
      [] operator = "Less" -> Ok(s, Boolean(partial_cmp(left, right) = "Less"))
      [] operator = "LessEqual" ->
            Ok(s, Boolean(partial_cmp(left, right) \in {"Less", "Equal"}))
      [] operator = "And" -> Ok(s, IF is_truthy(left) THEN right ELSE left)
      [] operator = "Or" -> Ok(s, IF is_truthy(left) THEN left ELSE right)
      [] OTHER -> Err(s, RuntimeError("InvalidBinaryOperator"))

\* BinaryExpression::evaluate after self.right.evaluate(environment)?: the
\* result of the match, recorded with the states after each operand
BinaryExpression_right(operator, left, right) ==
    IF right.k # "Ok" THEN right
    ELSE LET r == binary_operator(right.s, operator, left.v, right.v) IN
         [r EXCEPT !.s = Logged(@, [ev |-> "binary", operator |-> operator,
                                    left |-> left.v, right |-> right.v,
                                    k |-> r.k, v |-> r.v,
                                    leftEnv |-> left.s.env, leftOut |-> left.s.out,
                                    leftLen |-> Len(left.s.log),
                                    endEnv |-> right.s.env, endOut |-> right.s.out,
                                    endLen |-> Len(right.s.log)])]

\* BinaryExpression::evaluate after self.left.evaluate(environment)?
BinaryExpression_left(node, left, fuel) ==
    IF left.k # "Ok" THEN left
    ELSE BinaryExpression_right(node.operator, left, evaluate(node.right, left.s, fuel))

\* BinaryExpression::evaluate with the right operand evaluated first
BinaryExpression_left_last(operator, left, right) ==
    IF left.k # "Ok" THEN left
    ELSE BinaryExpression_right(operator, left, [right EXCEPT !.s = left.s])

BinaryExpression_right_first(node, right, fuel) ==
    IF right.k # "Ok" THEN right
    ELSE BinaryExpression_left_last(node.operator, evaluate(node.left, right.s, fuel), right)

BinaryExpression_evaluate_reversed(node, s, fuel) ==
    BinaryExpression_right_first(node, evaluate(node.right, s, fuel), fuel)

BinaryExpression_evaluate(node, s, fuel) ==
    BinaryExpression_left(node, evaluate(node.left, s, fuel), fuel)

UnaryExpression_evaluate(node, s, fuel) ==
    LET UnaryExpression_right(operator, right) ==
            IF right.k # "Ok" THEN right
            ELSE CASE operator = "Minus" -> Unwrap(right.s, Value_neg(right.v))
                   [] operator = "Bang" -> Ok(right.s, Value_not(right.v))
                   [] OTHER -> Err(right.s, RuntimeError("InvalidUnaryOperator"))
    IN
    UnaryExpression_right(node.operator, evaluate(node.right, s, fuel))

PostfixExpression_evaluate(node, s, fuel) ==
    LET \* the Index arm after index.evaluate(environment)?; what the arm returns is
        \* recorded with the value indexed and the index
        PostfixExpression_index(left, index) ==
            IF index.k # "Ok" THEN index
            ELSE LET i == index_of(Len(left.v), index.v)
                     r == IF left.t \in {"String", "Array"} /\ index.v.t = "Number"
                          THEN IF i < 0 \/ i >= Len(left.v)
                               THEN Panic(index.s, "IndexOutOfRange")
                               ELSE IF left.t = "String"
                               THEN Ok(index.s, String(<<left.v[i + 1]>>))
                               ELSE Ok(index.s, left.v[i + 1])
                          ELSE Err(index.s, RuntimeError("InvalidIndexOperator"))
                 IN [r EXCEPT !.s = Logged(@, [ev |-> "index", target |-> left,
                                               index |-> index.v, k |-> r.k, v |-> r.v])]
        \* the Call arm after the arguments were evaluated
        PostfixExpression_call(function, arguments) ==
            IF arguments.k # "Ok" THEN arguments
            ELSE Function_call(function, arguments.v, arguments.s, fuel)
        \* PostfixExpression::evaluate after self.left.evaluate(environment)?
        PostfixExpression_left(left) ==
            IF left.k # "Ok" THEN left
            ELSE CASE node.operator.k = "Index" ->
                        PostfixExpression_index(left.v,
                                                evaluate(node.operator.index, left.s, fuel))
                   [] node.operator.k = "Dot" ->
                        IF left.v.t \in {"String", "Array"} /\ node.operator.name = "length"
                        THEN Ok(left.s, Number(Len(left.v.v)))
                        ELSE Err(left.s, RuntimeError("InvalidDotOperator"))
                   [] node.operator.k = "Call" ->
                        IF left.v.t = "Function"
                        THEN PostfixExpression_call(left.v.v,
                                evaluate_all(node.operator.arguments, 1, <<>>, left.s, fuel))
                        ELSE Err(left.s, RuntimeError("InvalidCallOperator"))
    IN
    PostfixExpression_left(evaluate(node.left, s, fuel))

evaluate_all_next(elements, i, values, e, fuel) ==
    IF e.k # "Ok" THEN e
    ELSE evaluate_all(elements, i + 1, Append(values, e.v), e.s, fuel)

\* the elements from the i-th on, in order, up to the first that is not Ok;
\* v is the sequence of the values
evaluate_all(elements, i, values, s, fuel) ==
    IF i > Len(elements) THEN Ok(s, values)
    ELSE evaluate_all_next(elements, i, values, evaluate(elements[i], s, fuel), fuel)

ArrayLiteral_evaluate(node, s, fuel) ==
    LET ArrayLiteral_elements(elements) ==
            IF elements.k # "Ok" THEN elements ELSE Ok(elements.s, Array(elements.v))
    IN
    ArrayLiteral_elements(evaluate_all(node.elements, 1, <<>>, s, fuel))

evaluate(node, s, fuel) ==
    IF fuel = 0 THEN Panic(s, "StackOverflow")
    ELSE LET s1 == Logged(s, [ev |-> "evaluate", k |-> node.k]) IN
         CASE node.k = "Assignment" -> AssignmentExpression_evaluate(node, s1, fuel - 1)
           [] node.k = "Conditional" -> ConditionalExpression_evaluate(node, s1, fuel - 1)
           [] node.k = "Binary" -> BinaryExpression_evaluate(node, s1, fuel - 1)
           [] node.k = "Unary" -> UnaryExpression_evaluate(node, s1, fuel - 1)
           [] node.k = "Postfix" -> PostfixExpression_evaluate(node, s1, fuel - 1)
           [] node.k = "Identifier" -> Get(s1, node.name)
           [] node.k = "ArrayLiteral" -> ArrayLiteral_evaluate(node, s1, fuel - 1)
           [] node.k = "Literal" -> Ok(s1, node.v)

\* the zip of parameters and arguments, each defined immutable
define_parameters(env, parameters, arguments, i) ==
    IF i > Len(parameters) \/ i > Len(arguments) THEN env
    ELSE define_parameters(Environment_define(env, parameters[i], <<arguments[i]>>, FALSE),
                           parameters, arguments, i + 1)

\* the return of Function::call, recorded with the Environment before the
\* call (in s) and after it (in r)
Function_return(function, arguments, s, r) ==
    [r EXCEPT !.s = Logged(@, [ev |-> "call", parameters |-> Len(function.parameters),
                               arguments |-> Len(arguments), before |-> s.env,
                               after |-> r.s.env, start |-> Len(s.log),
                               k |-> r.k, e |-> r.e])]

\* Function::call after self.body.execute(environment): environment.pop()
Function_body(function, arguments, s, result) ==
    IF result.k = "Panic" THEN result
    ELSE Function_return(function, arguments, s,
                         [result EXCEPT !.s.env = Environment_pop(@)])

\* call with the parameters defined before the counts are compared
Function_call_bound(function, arguments, s, fuel) ==
    IF Len(function.parameters) # Len(arguments)
    THEN Function_return(function, arguments, s,
            Err([s EXCEPT !.env = define_parameters(Environment_push(@),
                                      function.parameters, arguments, 1)],
                ArityError(Len(function.parameters), Len(arguments))))
    ELSE Function_body(function, arguments, s,
            execute(function.body,
                    [s EXCEPT !.env = define_parameters(Environment_push(@),
                                          function.parameters, arguments, 1)],
                    fuel))

Function_call(function, arguments, s, fuel) ==
    IF Len(function.parameters) # Len(arguments)
    THEN Function_return(function, arguments, s,
            Err([s EXCEPT !.env = Environment_push(@)],
                ArityError(Len(function.parameters), Len(arguments))))
    ELSE Function_body(function, arguments, s,
            execute(function.body,
                    [s EXCEPT !.env = define_parameters(Environment_push(@),
                                          function.parameters, arguments, 1)],
                    fuel))

\* the loop of BlockStatement::execute left at a return statement
execute_all_next_unwinding(stmts, i, r, fuel) ==
    IF r.k # "Ok" \/ stmts[i].k = "ReturnStatement" THEN r
    ELSE execute_all(stmts, i + 1, r.v, r.s, fuel)

execute_all_next(stmts, i, r, fuel) ==
    IF r.k # "Ok" THEN r ELSE execute_all(stmts, i + 1, r.v, r.s, fuel)

\* the statements from the i-th on, in order, up to the first that is not Ok
execute_all(stmts, i, result, s, fuel) ==
    IF i > Len(stmts) THEN Ok(s, result)
    ELSE execute_all_next(stmts, i, execute(stmts[i], s, fuel), fuel)

\* BlockStatement::execute after the loop: environment.pop() when no
\* statement returned an error; the return is recorded with the Environment
\* before the block (in s) and after it
BlockStatement_statements(node, s, r) ==
    IF r.k = "Panic" THEN r
    ELSE LET done == IF r.k = "Ok" THEN [r EXCEPT !.s.env = Environment_pop(@)] ELSE r IN
         [done EXCEPT !.s = Logged(@, [ev |-> "block", node |-> node,
                                       before |-> s.env, after |-> done.s.env,
                                       start |-> Len(s.log), k |-> r.k])]

BlockStatement_execute(node, s, fuel) ==
    BlockStatement_statements(node, s,
        execute_all(node.statements, 1, Null,
                    [s EXCEPT !.env = Environment_push(@)], fuel))

VariableDeclaration_execute(node, s, fuel) ==
    LET VariableDeclaration_value(value) ==
            IF value.k # "Ok" THEN value
            ELSE Ok([value.s EXCEPT !.env =
                        Environment_define(@, node.name, <<value.v>>, node.mutable)], Null)
    IN
    IF node.initializer # <<>>
    THEN VariableDeclaration_value(evaluate(node.initializer[1], s, fuel))
    ELSE Ok([s EXCEPT !.env = Environment_define(@, node.name, <<>>, node.mutable)], Null)

FunctionStatement_execute(node, s) ==
    Ok([s EXCEPT !.env = Environment_define(@, node.name,
            <<FunctionValue([name |-> node.name, parameters |-> node.parameters,
                             body |-> node.body])>>, FALSE)], Null)

PrintStatement_execute(node, s, fuel) ==
    LET PrintStatement_value(value) ==
            IF value.k # "Ok" THEN value
            ELSE Ok([value.s EXCEPT !.out = Append(@, value.v)], value.v)
    IN
    PrintStatement_value(evaluate(node.expression, s, fuel))

IfStatement_execute(node, s, fuel) ==
    LET IfStatement_condition(condition) ==
            IF condition.k # "Ok" THEN condition
            ELSE IF is_truthy(condition.v) THEN execute(node.then_branch, condition.s, fuel)
            ELSE IF node.else_branch # <<>> THEN execute(node.else_branch[1], condition.s, fuel)
            ELSE Ok(condition.s, Null)
    IN
    IfStatement_condition(evaluate(node.condition, s, fuel))

WhileStatement_body(node, body, fuel) ==
    IF body.k # "Ok" THEN body ELSE while_loop(node, body.v, body.s, fuel - 1)

WhileStatement_condition(node, result, condition, fuel) ==
    IF condition.k # "Ok" THEN condition
    ELSE IF is_truthy(condition.v)
    THEN WhileStatement_body(node, execute(node.body, condition.s, fuel), fuel)
    ELSE Ok(condition.s, result)

\* the loop of WhileStatement::execute; a loop that runs past the fuel does
\* not return
while_loop(node, result, s, fuel) ==
    IF fuel = 0 THEN Panic(s, "Diverges")
    ELSE WhileStatement_condition(node, result, evaluate(node.condition, s, fuel), fuel)

ReturnStatement_execute(node, s, fuel) ==
    IF node.value # <<>> THEN evaluate(node.value[1], s, fuel) ELSE Ok(s, Null)

execute(node, s, fuel) ==
    IF fuel = 0 THEN Panic(s, "StackOverflow")
    ELSE LET s1 == Logged(s, [ev |-> "execute", k |-> node.k]) IN
         CASE node.k = "Block" -> BlockStatement_execute(node, s1, fuel - 1)
           [] node.k = "VariableDeclaration" ->
                VariableDeclaration_execute(node, s1, fuel - 1)
           [] node.k = "FunctionDeclaration" -> FunctionStatement_execute(node, s1)
           [] node.k = "ExpressionStatement" -> evaluate(node.expression, s1, fuel - 1)
           [] node.k = "PrintStatement" -> PrintStatement_execute(node, s1, fuel - 1)
           [] node.k = "IfStatement" -> IfStatement_execute(node, s1, fuel - 1)
           [] node.k = "WhileStatement" -> while_loop(node, Null, s1, fuel - 1)
           [] node.k = "ReturnStatement" -> ReturnStatement_execute(node, s1, fuel - 1)

(***************************************************************************)
(* The sources interpret is run on: every program of at most MaxStmts      *)
(* fragments, and every token sequence of at most MaxTokens tokens of      *)
(* Alphabet.                                                               *)
(***************************************************************************)
Fragments == <<
    \* let a = 0
    <<Tok("Let"), Id("a"), Tok("Equal"), Num(0)>>,
    \* 0 & (a = 1)
    <<Num(0), Tok("And"), Tok("LeftParentheses"), Id("a"), Tok("Equal"), Num(1),
      Tok("RightParentheses")>>,
    \* 1 | (a = 2)
    <<Num(1), Tok("Or"), Tok("LeftParentheses"), Id("a"), Tok("Equal"), Num(2),
      Tok("RightParentheses")>>,
    \* print a
    <<Tok("Print"), Id("a")>>,
    \* let x = 1
    <<Tok("Let"), Id("x"), Tok("Equal"), Num(1)>>,
    \* const x = 1
    <<Tok("Const"), Id("x"), Tok("Equal"), Num(1)>>,
    \* let x
    <<Tok("Let"), Id("x")>>,
    \* x = 2
    <<Id("x"), Tok("Equal"), Num(2)>>,
    \* print x
    <<Tok("Print"), Id("x")>>,
    \* if 0 let x = 1
    <<Tok("If"), Num(0), Tok("Let"), Id("x"), Tok("Equal"), Num(1)>>,
    \* { let x = 2 x = 3 print x }
    <<Tok("LeftBrace"), Tok("Let"), Id("x"), Tok("Equal"), Num(2), Id("x"),
      Tok("Equal"), Num(3),
      Tok("Print"), Id("x"), Tok("RightBrace")>>,
    \* function f() { let x = 1 { let x = 2 x = 3 print x } print x }
    <<Tok("Function"), Id("f"), Tok("LeftParentheses"), Tok("RightParentheses"),
      Tok("LeftBrace"),
      Tok("Let"), Id("x"), Tok("Equal"), Num(1),
      Tok("LeftBrace"), Tok("Let"), Id("x"), Tok("Equal"), Num(2), Id("x"),
      Tok("Equal"), Num(3),
      Tok("Print"), Id("x"), Tok("RightBrace"),
      Tok("Print"), Id("x"), Tok("RightBrace")>>,
    \* f()
    <<Id("f"), Tok("LeftParentheses"), Tok("RightParentheses")>>,
    \* { f() }
    <<Tok("LeftBrace"), Id("f"), Tok("LeftParentheses"), Tok("RightParentheses"),
      Tok("RightBrace")>>,
    \* function g() { const x = 1 if 0 let x = 2 x = 3 }
    <<Tok("Function"), Id("g"), Tok("LeftParentheses"), Tok("RightParentheses"),
      Tok("LeftBrace"),
      Tok("Const"), Id("x"), Tok("Equal"), Num(1), Tok("If"), Num(0), Tok("Let"),
      Id("x"), Tok("Equal"), Num(2),
      Id("x"), Tok("Equal"), Num(3), Tok("RightBrace")>>,
    \* { { let x = 7 g() print x } }
    <<Tok("LeftBrace"), Tok("LeftBrace"), Tok("Let"), Id("x"), Tok("Equal"), Num(7),
      Id("g"), Tok("LeftParentheses"), Tok("RightParentheses"), Tok("Print"),
      Id("x"), Tok("RightBrace"), Tok("RightBrace")>>,
    \* g()
    <<Id("g"), Tok("LeftParentheses"), Tok("RightParentheses")>>,
    \* function h(a, b) { print a }
    <<Tok("Function"), Id("h"), Tok("LeftParentheses"), Id("a"), Tok("Comma"),
      Id("b"), Tok("RightParentheses"),
      Tok("LeftBrace"), Tok("Print"), Id("a"), Tok("RightBrace")>>,
    \* h(1) print 1
    <<Id("h"), Tok("LeftParentheses"), Num(1), Tok("RightParentheses"),
      Tok("Print"), Num(1)>>,
    \* h(1, 2)
    <<Id("h"), Tok("LeftParentheses"), Num(1), Tok("Comma"), Num(2),
      Tok("RightParentheses")>>,
    \* print 1 { 1[0] } print 2
    <<Tok("Print"), Num(1), Tok("LeftBrace"), Num(1), Tok("LeftBracket"), Num(0),
      Tok("RightBracket"),
      Tok("RightBrace"), Tok("Print"), Num(2)>>,
    \* print
    <<Tok("Print")>>,
    \* let = 2
    <<Tok("Let"), Tok("Equal"), Num(2)>>,
    \* )
    <<Tok("RightParentheses")>>,
    \* x += 1
    <<Id("x"), Tok("PlusEqual"), Num(1)>>,
    \* if 0 let x = 1 print x
    <<Tok("If"), Num(0), Tok("Let"), Id("x"), Tok("Equal"), Num(1), Tok("Print"),
      Id("x")>>
>>

Alphabet == {Tok("Let"), Id("x"), Tok("Equal"), Num(1), Tok("Print"),
             Tok("LeftBrace"), Tok("RightBrace")}

RECURSIVE Programs(_)
Programs(n) ==
    IF n = 0 THEN {<<>>}
    ELSE LET shorter == Programs(n - 1) IN
         shorter \cup {prog \o Fragments[i] : prog \in shorter, i \in 1..Len(Fragments)}

RECURSIVE TokenSequences(_)
TokenSequences(n) ==
    IF n = 0 THEN {<<>>}
    ELSE LET shorter == TokenSequences(n - 1) IN
         shorter \cup {Append(toks, t) : toks \in shorter, t \in Alphabet}

\* whole programs
Samples == {
    \* print 1 - [1]
    <<Tok("Print"), Num(1), Tok("Minus"), Tok("LeftBracket"), Num(1),
      Tok("RightBracket")>>,
    \* print -[1]
    <<Tok("Print"), Tok("Minus"), Tok("LeftBracket"), Num(1), Tok("RightBracket")>>,
    \* let x = 1 x -= [1]
    <<Tok("Let"), Id("x"), Tok("Equal"), Num(1), Id("x"), Tok("MinusEqual"),
      Tok("LeftBracket"), Num(1), Tok("RightBracket")>>,
    \* let x = 3 x -= 1 print x
    <<Tok("Let"), Id("x"), Tok("Equal"), Num(3), Id("x"), Tok("MinusEqual"), Num(1),
      Tok("Print"), Id("x")>>,
    \* print [1, 2][0] print [1, 2][-1] print [1, 2][-2]
    <<Tok("Print"), Tok("LeftBracket"), Num(1), Tok("Comma"), Num(2),
      Tok("RightBracket"), Tok("LeftBracket"), Num(0), Tok("RightBracket"),
      Tok("Print"), Tok("LeftBracket"), Num(1), Tok("Comma"), Num(2),
      Tok("RightBracket"), Tok("LeftBracket"), Tok("Minus"), Num(1),
      Tok("RightBracket"),
      Tok("Print"), Tok("LeftBracket"), Num(1), Tok("Comma"), Num(2),
      Tok("RightBracket"), Tok("LeftBracket"), Tok("Minus"), Num(2),
      Tok("RightBracket")>>,
    \* print [1, 2][2]
    <<Tok("Print"), Tok("LeftBracket"), Num(1), Tok("Comma"), Num(2),
      Tok("RightBracket"), Tok("LeftBracket"), Num(2), Tok("RightBracket")>>,
    \* print [1, 2][-3]
    <<Tok("Print"), Tok("LeftBracket"), Num(1), Tok("Comma"), Num(2),
      Tok("RightBracket"), Tok("LeftBracket"), Tok("Minus"), Num(3),
      Tok("RightBracket")>>,
    \* let a = 0 let b = 0 print a = b = 3 print a print b
    <<Tok("Let"), Id("a"), Tok("Equal"), Num(0), Tok("Let"), Id("b"), Tok("Equal"),
      Num(0), Tok("Print"), Id("a"), Tok("Equal"), Id("b"), Tok("Equal"), Num(3),
      Tok("Print"), Id("a"), Tok("Print"), Id("b")>>,
    \* { let a = 0 let b = 0 print a = b = 3 print a print b }
    <<Tok("LeftBrace"),
      Tok("Let"), Id("a"), Tok("Equal"), Num(0), Tok("Let"), Id("b"), Tok("Equal"),
      Num(0), Tok("Print"), Id("a"), Tok("Equal"), Id("b"), Tok("Equal"), Num(3),
      Tok("Print"), Id("a"), Tok("Print"), Id("b"),
      Tok("RightBrace")>>,
    \* function k() { let a = 0 let b = 0 print a = b = 3 print a print b } k()
    <<Tok("Function"), Id("k"), Tok("LeftParentheses"), Tok("RightParentheses"),
      Tok("LeftBrace"),
      Tok("Let"), Id("a"), Tok("Equal"), Num(0), Tok("Let"), Id("b"), Tok("Equal"),
      Num(0), Tok("Print"), Id("a"), Tok("Equal"), Id("b"), Tok("Equal"), Num(3),
      Tok("Print"), Id("a"), Tok("Print"), Id("b"),
      Tok("RightBrace"), Id("k"), Tok("LeftParentheses"), Tok("RightParentheses")>>,
    \* function k() { let a = 0 let b = 0 print a = b = 3 print a print b }
    \* { k() }
    <<Tok("Function"), Id("k"), Tok("LeftParentheses"), Tok("RightParentheses"),
      Tok("LeftBrace"),
      Tok("Let"), Id("a"), Tok("Equal"), Num(0), Tok("Let"), Id("b"), Tok("Equal"),
      Num(0), Tok("Print"), Id("a"), Tok("Equal"), Id("b"), Tok("Equal"), Num(3),
      Tok("Print"), Id("a"), Tok("Print"), Id("b"),
      Tok("RightBrace"), Tok("LeftBrace"), Id("k"), Tok("LeftParentheses"),
      Tok("RightParentheses"), Tok("RightBrace")>>,
    \* let x x = 2 print x
    <<Tok("Let"), Id("x"), Id("x"), Tok("Equal"), Num(2), Tok("Print"), Id("x")>>,
    \* function p(a) { a = 2 print a } p(1)
    <<Tok("Function"), Id("p"), Tok("LeftParentheses"), Id("a"), Tok("RightParentheses"),
      Tok("LeftBrace"), Id("a"), Tok("Equal"), Num(2), Tok("Print"), Id("a"),
      Tok("RightBrace"),
      Id("p"), Tok("LeftParentheses"), Num(1), Tok("RightParentheses")>>,
    \* function p(a) { a = 2 print a } { p(1) }
    <<Tok("Function"), Id("p"), Tok("LeftParentheses"), Id("a"), Tok("RightParentheses"),
      Tok("LeftBrace"), Id("a"), Tok("Equal"), Num(2), Tok("Print"), Id("a"),
      Tok("RightBrace"),
      Tok("LeftBrace"), Id("p"), Tok("LeftParentheses"), Num(1), Tok("RightParentheses"),
      Tok("RightBrace")>>,
    \* function p(a) { a = 2 print a } { let a = 5 p(1) print a }
    <<Tok("Function"), Id("p"), Tok("LeftParentheses"), Id("a"), Tok("RightParentheses"),
      Tok("LeftBrace"), Id("a"), Tok("Equal"), Num(2), Tok("Print"), Id("a"),
      Tok("RightBrace"),
      Tok("LeftBrace"), Tok("Let"), Id("a"), Tok("Equal"), Num(5),
      Id("p"), Tok("LeftParentheses"), Num(1), Tok("RightParentheses"),
      Tok("Print"), Id("a"), Tok("RightBrace")>>,
    \* function f(a) 1 print a
    <<Tok("Function"), Id("f"), Tok("LeftParentheses"), Id("a"), Tok("RightParentheses"),
      Num(1), Tok("Print"), Id("a")>>,
    \* { + } print 1
    <<Tok("LeftBrace"), Tok("Plus"), Tok("RightBrace"), Tok("Print"), Num(1)>>,
    \* function r() { return 1 print 2 3 } print r()
    <<Tok("Function"), Id("r"), Tok("LeftParentheses"), Tok("RightParentheses"),
      Tok("LeftBrace"), Tok("Return"), Num(1), Tok("Print"), Num(2), Num(3),
      Tok("RightBrace"),
      Tok("Print"), Id("r"), Tok("LeftParentheses"), Tok("RightParentheses")>>,
    \* let i = 0 while i < 2 { return 7 i += 1 } print i
    <<Tok("Let"), Id("i"), Tok("Equal"), Num(0), Tok("While"), Id("i"), Tok("Less"), Num(2),
      Tok("LeftBrace"), Tok("Return"), Num(7), Id("i"), Tok("PlusEqual"), Num(1),
      Tok("RightBrace"), Tok("Print"), Id("i")>>,
    \* { { return 1 } print 2 }
    <<Tok("LeftBrace"), Tok("LeftBrace"), Tok("Return"), Num(1), Tok("RightBrace"),
      Tok("Print"), Num(2), Tok("RightBrace")>>,
    \* let a = 0 print (a = 1) - (a = a + 2) print a
    <<Tok("Let"), Id("a"), Tok("Equal"), Num(0), Tok("Print"),
      Tok("LeftParentheses"), Id("a"), Tok("Equal"), Num(1), Tok("RightParentheses"),
      Tok("Minus"), Tok("LeftParentheses"), Id("a"), Tok("Equal"), Id("a"),
      Tok("Plus"), Num(2), Tok("RightParentheses"), Tok("Print"), Id("a")>>,
    \* function f(x, y) { print x print y } let a = 0 f(a = 1, a = a + 1)
    <<Tok("Function"), Id("f"), Tok("LeftParentheses"), Id("x"), Tok("Comma"),
      Id("y"), Tok("RightParentheses"), Tok("LeftBrace"), Tok("Print"), Id("x"),
      Tok("Print"), Id("y"), Tok("RightBrace"), Tok("Let"), Id("a"), Tok("Equal"),
      Num(0), Id("f"), Tok("LeftParentheses"), Id("a"), Tok("Equal"), Num(1),
      Tok("Comma"), Id("a"), Tok("Equal"), Id("a"), Tok("Plus"), Num(1),
      Tok("RightParentheses")>>,
    \* let a = 0 let b = [a = 1, a = a + 1] print b[0] print b[1]
    <<Tok("Let"), Id("a"), Tok("Equal"), Num(0), Tok("Let"), Id("b"), Tok("Equal"),
      Tok("LeftBracket"), Id("a"), Tok("Equal"), Num(1), Tok("Comma"), Id("a"),
      Tok("Equal"), Id("a"), Tok("Plus"), Num(1), Tok("RightBracket"), Tok("Print"),
      Id("b"), Tok("LeftBracket"), Num(0), Tok("RightBracket"), Tok("Print"),
      Id("b"), Tok("LeftBracket"), Num(1), Tok("RightBracket")>>,
    \* let a = 1 a += (a = 5) print a
    <<Tok("Let"), Id("a"), Tok("Equal"), Num(1), Id("a"), Tok("PlusEqual"),
      Tok("LeftParentheses"), Id("a"), Tok("Equal"), Num(5), Tok("RightParentheses"),
      Tok("Print"), Id("a")>>,
    \* let a = 0 print 1[0] + (a = 1)
    <<Tok("Let"), Id("a"), Tok("Equal"), Num(0), Tok("Print"), Num(1),
      Tok("LeftBracket"), Num(0), Tok("RightBracket"), Tok("Plus"),
      Tok("LeftParentheses"), Id("a"), Tok("Equal"), Num(1), Tok("RightParentheses")>>,
    \* function f(x, y) { print x } let a = 0 f(1[0], a = 1)
    <<Tok("Function"), Id("f"), Tok("LeftParentheses"), Id("x"), Tok("Comma"),
      Id("y"), Tok("RightParentheses"), Tok("LeftBrace"), Tok("Print"), Id("x"),
      Tok("RightBrace"), Tok("Let"), Id("a"), Tok("Equal"), Num(0), Id("f"),
      Tok("LeftParentheses"), Num(1), Tok("LeftBracket"), Num(0),
      Tok("RightBracket"), Tok("Comma"), Id("a"), Tok("Equal"), Num(1),
      Tok("RightParentheses")>>,
    \* let a = 0 print [1[0], a = 1]
    <<Tok("Let"), Id("a"), Tok("Equal"), Num(0), Tok("Print"), Tok("LeftBracket"),
      Num(1), Tok("LeftBracket"), Num(0), Tok("RightBracket"), Tok("Comma"), Id("a"),
      Tok("Equal"), Num(1), Tok("RightBracket")>>,
    \* function g(x) { } let a = 0 g(a = 1, a = 2)
    <<Tok("Function"), Id("g"), Tok("LeftParentheses"), Id("x"),
      Tok("RightParentheses"), Tok("LeftBrace"), Tok("RightBrace"), Tok("Let"),
      Id("a"), Tok("Equal"), Num(0), Id("g"), Tok("LeftParentheses"), Id("a"),
      Tok("Equal"), Num(1), Tok("Comma"), Id("a"), Tok("Equal"), Num(2),
      Tok("RightParentheses")>>,
    \* let a = 0 a = 1[0]
    <<Tok("Let"), Id("a"), Tok("Equal"), Num(0), Id("a"), Tok("Equal"), Num(1),
      Tok("LeftBracket"), Num(0), Tok("RightBracket")>>,
    \* let a = [1] a[0] = 2
    <<Tok("Let"), Id("a"), Tok("Equal"), Tok("LeftBracket"), Num(1),
      Tok("RightBracket"), Id("a"), Tok("LeftBracket"), Num(0), Tok("RightBracket"),
      Tok("Equal"), Num(2)>>,
    \* 1 = 2
    <<Num(1), Tok("Equal"), Num(2)>>,
    \* let a = [1] a.length = 1
    <<Tok("Let"), Id("a"), Tok("Equal"), Tok("LeftBracket"), Num(1),
      Tok("RightBracket"), Id("a"), Tok("Dot"), Id("length"), Tok("Equal"), Num(1)>>,
    \* function f() { } f() = 1
    <<Tok("Function"), Id("f"), Tok("LeftParentheses"), Tok("RightParentheses"),
      Tok("LeftBrace"), Tok("RightBrace"), Id("f"), Tok("LeftParentheses"),
      Tok("RightParentheses"), Tok("Equal"), Num(1)>>,
    \* let a = 1 { } (a + 1) = 2
    <<Tok("Let"), Id("a"), Tok("Equal"), Num(1), Tok("LeftBrace"), Tok("RightBrace"),
      Tok("LeftParentheses"), Id("a"), Tok("Plus"), Num(1), Tok("RightParentheses"),
      Tok("Equal"), Num(2)>>,
    \* let a = 1 { } (a) = 2 print a
    <<Tok("Let"), Id("a"), Tok("Equal"), Num(1), Tok("LeftBrace"), Tok("RightBrace"),
      Tok("LeftParentheses"), Id("a"), Tok("RightParentheses"), Tok("Equal"), Num(2),
      Tok("Print"), Id("a")>>,
    \* let a = 1 { } -a = 2
    <<Tok("Let"), Id("a"), Tok("Equal"), Num(1), Tok("LeftBrace"), Tok("RightBrace"),
      Tok("Minus"), Id("a"), Tok("Equal"), Num(2)>>,
    \* let a = [1] a[0] += 2
    <<Tok("Let"), Id("a"), Tok("Equal"), Tok("LeftBracket"), Num(1),
      Tok("RightBracket"), Id("a"), Tok("LeftBracket"), Num(0), Tok("RightBracket"),
      Tok("PlusEqual"), Num(2)>>,
    \* const c = 1 c = 2
    <<Tok("Const"), Id("c"), Tok("Equal"), Num(1), Id("c"), Tok("Equal"), Num(2)>>,
    \* let a = 1 a *= 3 print a
    <<Tok("Let"), Id("a"), Tok("Equal"), Num(1), Id("a"), Tok("StarEqual"), Num(3),
      Tok("Print"), Id("a")>>,
    \* class print 1
    <<Tok("Class"), Tok("Print"), Num(1)>>,
    \* } print
    <<Tok("RightBrace"), Tok("Print")>>,
    \* let g = 0 { function f() { let y = 0 y = 1 print y } g = f } g()
    <<Tok("Let"), Id("g"), Tok("Equal"), Num(0), Tok("LeftBrace"), Tok("Function"),
      Id("f"), Tok("LeftParentheses"), Tok("RightParentheses"), Tok("LeftBrace"),
      Tok("Let"), Id("y"), Tok("Equal"), Num(0), Id("y"), Tok("Equal"), Num(1),
      Tok("Print"), Id("y"), Tok("RightBrace"), Id("g"), Tok("Equal"), Id("f"),
      Tok("RightBrace"), Id("g"), Tok("LeftParentheses"), Tok("RightParentheses")>>,
    \* function f() { let y = 0 y = 1 print y } f()
    <<Tok("Function"), Id("f"), Tok("LeftParentheses"), Tok("RightParentheses"),
      Tok("LeftBrace"), Tok("Let"), Id("y"), Tok("Equal"), Num(0), Id("y"),
      Tok("Equal"), Num(1), Tok("Print"), Id("y"), Tok("RightBrace"), Id("f"),
      Tok("LeftParentheses"), Tok("RightParentheses")>>,
    \* function f() { } print f == f print f != f
    <<Tok("Function"), Id("f"), Tok("LeftParentheses"), Tok("RightParentheses"),
      Tok("LeftBrace"), Tok("RightBrace"), Tok("Print"), Id("f"), Tok("EqualEqual"),
      Id("f"), Tok("Print"), Id("f"), Tok("BangEqual"), Id("f")>>,
    \* print 0 / 0 == 0 / 0
    <<Tok("Print"), Num(0), Tok("Slash"), Num(0), Tok("EqualEqual"), Num(0),
      Tok("Slash"), Num(0)>>,
    \* print [1] == [1] print [1] != [1]
    <<Tok("Print"), Tok("LeftBracket"), Num(1), Tok("RightBracket"),
      Tok("EqualEqual"), Tok("LeftBracket"), Num(1), Tok("RightBracket"),
      Tok("Print"), Tok("LeftBracket"), Num(1), Tok("RightBracket"),
      Tok("BangEqual"), Tok("LeftBracket"), Num(1), Tok("RightBracket")>>,
    \* function f() { } print f() == f() print 1 != 1 print 1 == 1
    <<Tok("Function"), Id("f"), Tok("LeftParentheses"), Tok("RightParentheses"),
      Tok("LeftBrace"), Tok("RightBrace"), Tok("Print"), Id("f"),
      Tok("LeftParentheses"), Tok("RightParentheses"), Tok("EqualEqual"), Id("f"),
      Tok("LeftParentheses"), Tok("RightParentheses"), Tok("Print"), Num(1),
      Tok("BangEqual"), Num(1), Tok("Print"), Num(1), Tok("EqualEqual"), Num(1)>>,
    \* function f() { } print 1 == [1] print f() == 1 print f == 1
    <<Tok("Function"), Id("f"), Tok("LeftParentheses"), Tok("RightParentheses"),
      Tok("LeftBrace"), Tok("RightBrace"), Tok("Print"), Num(1), Tok("EqualEqual"),
      Tok("LeftBracket"), Num(1), Tok("RightBracket"), Tok("Print"), Id("f"),
      Tok("LeftParentheses"), Tok("RightParentheses"), Tok("EqualEqual"), Num(1),
      Tok("Print"), Id("f"), Tok("EqualEqual"), Num(1)>>,
    \* let x = x
    <<Tok("Let"), Id("x"), Tok("Equal"), Id("x")>>,
    \* let x = 1 { let x = x print x }
    <<Tok("Let"), Id("x"), Tok("Equal"), Num(1), Tok("LeftBrace"), Tok("Let"), Id("x"),
      Tok("Equal"), Id("x"), Tok("Print"), Id("x"), Tok("RightBrace")>>,
    \* let x = 1 { let x print x }
    <<Tok("Let"), Id("x"), Tok("Equal"), Num(1), Tok("LeftBrace"), Tok("Let"), Id("x"),
      Tok("Print"), Id("x"), Tok("RightBrace")>>
}

\* print a op1 b op2 c, the operands up to n
Arithmetic(n) ==
    {<<Tok("Print"), Num(a), Tok(op1), Num(b), Tok(op2), Num(c)>> :
        a \in 1..n, b \in 1..n, c \in 1..n,
        op1 \in {"Plus", "Minus", "Star", "Slash"},
        op2 \in {"Plus", "Minus", "Star", "Slash"}}

Sources ==
    Programs(MaxStmts) \cup TokenSequences(MaxTokens) \cup Samples
        \cup Arithmetic(MaxOperand)

(***************************************************************************)
(* interpret (interpreter/mod.rs): Interpreter::new, parse(source)?, then  *)
(* statement.execute(&mut self.environment)? for each statement.  The      *)
(* loop of Parser::program and the loop of interpret take one iteration a  *)
(* step.  interpret is called on the source a second time when the first   *)
(* call has returned.                                                      *)
(***************************************************************************)
Running == [k |-> "Running", err |-> NoError, e |-> NoRuntimeError]

Init ==
    /\ source \in Sources
    /\ phase = "parse"
    /\ parser = Parser_new(source)
    /\ statements = <<>>
    /\ errors = <<>>
    /\ pc = 1
    /\ environment = Environment_new
    /\ out = <<>>
    /\ log = <<>>
    /\ outcome = Running
    /\ previous = <<>>
    /\ scanner = Scanner_new(<<>>)

\* one iteration of the loop of Parser::program: the match on self.statement()
ProgramStatement ==
    /\ phase = "parse"
    /\ peek(parser) # "EOF"
    /\ \E r \in {statement(parser)} :
        IF r.ok
        THEN /\ parser' = r.p
             /\ statements' = Append(statements, r.node)
             /\ errors' = errors
        ELSE /\ parser' = synchronize(r.p)
             /\ statements' = statements
             /\ errors' = errors \o r.err.errors
    /\ UNCHANGED <<source, phase, pc, environment, out, log, outcome, previous, scanner>>

\* the end of Parser::program and the ? on its result in interpret
ProgramEnd ==
    /\ phase = "parse"
    /\ peek(parser) = "EOF"
    /\ IF errors # <<>>
       THEN /\ phase' = "done"
            /\ outcome' = [k |-> "ParseError", err |-> Multiple(errors),
                           e |-> NoRuntimeError]
       ELSE /\ phase' = "execute"
            /\ outcome' = outcome
    /\ UNCHANGED <<source, parser, statements, errors, pc, environment, out, log,
                   previous, scanner>>

\* the ? on the result r of the i-th statement
interpret_result(r, i) ==
    IF r.k = "Ok"
    THEN [s |-> r.s, pc |-> i + 1, phase |-> "execute", outcome |-> Running]
    ELSE [s |-> r.s, pc |-> i, phase |-> "done",
          outcome |-> [k |-> r.k, err |-> NoError, e |-> r.e]]

\* one iteration of the loop of Interpreter::interpret with every statement
\* run whatever the one before it returned
interpret_statement_unchecked(stmt, s, i) ==
    [s |-> execute(stmt, s, MaxFuel).s, pc |-> i + 1, phase |-> "execute",
     outcome |-> Running]

\* one iteration of the loop of Interpreter::interpret: statement.execute(..)?
interpret_statement(stmt, s, i) == interpret_result(execute(stmt, s, MaxFuel), i)

ExecuteStatement ==
    /\ phase = "execute"
    /\ pc <= Len(statements)
    /\ \E r \in {interpret_statement(statements[pc],
                    [env |-> environment, out |-> out, log |-> log], pc)} :
        /\ environment' = r.s.env
        /\ out' = r.s.out
        /\ log' = r.s.log
        /\ pc' = r.pc
        /\ phase' = r.phase
        /\ outcome' = r.outcome
    /\ UNCHANGED <<source, parser, statements, errors, previous, scanner>>

InterpretReturn ==
    /\ phase = "execute"
    /\ pc > Len(statements)
    /\ phase' = "done"
    /\ outcome' = [k |-> "Ok", err |-> NoError, e |-> NoRuntimeError]
    /\ UNCHANGED <<source, parser, statements, errors, pc, environment, out, log,
                   previous, scanner>>

\* what a call of interpret that returned has done
Returned ==
    [statements |-> statements, errors |-> errors, resolver |-> parser.scopes,
     calls |-> parser.rlog, pc |-> pc, environment |-> environment, out |-> out,
     log |-> log, outcome |-> outcome]

\* a second call of interpret on the source, with the Interpreter of the
\* first call and its Environment kept
InterpretAgain_kept ==
    /\ phase = "done"
    /\ previous = <<>>
    /\ previous' = <<Returned>>
    /\ phase' = "parse"
    /\ parser' = Parser_new(source)
    /\ statements' = <<>>
    /\ errors' = <<>>
    /\ pc' = 1
    /\ out' = <<>>
    /\ log' = <<>>
    /\ outcome' = Running
    /\ UNCHANGED <<source, environment, scanner>>

\* a second call of interpret on the source: Interpreter::new() and
\* Parser::new(source) start from a fresh Environment and a fresh Resolver;
\* previous keeps what the first call did
InterpretAgain ==
    /\ phase = "done"
    /\ previous = <<>>
    /\ previous' = <<Returned>>
    /\ phase' = "parse"
    /\ parser' = Parser_new(source)
    /\ statements' = <<>>
    /\ errors' = <<>>
    /\ pc' = 1
    /\ environment' = Environment_new
    /\ out' = <<>>
    /\ log' = <<>>
    /\ outcome' = Running
    /\ UNCHANGED <<source, scanner>>

Next ==
    \/ ProgramStatement
    \/ ProgramEnd
    \/ ExecuteStatement
    \/ InterpretReturn
    \/ InterpretAgain

Spec == Init /\ [][Next]_vars

(***************************************************************************)
(* The Resolver alone (parser/resolver.rs): a Resolver::new() driven by    *)
(* any sequence of push, pop, declare, define and resolve calls on one     *)
(* name.  parser.rlog holds the last call made.                            *)
(***************************************************************************)
ResolverInit ==
    /\ source = <<>>
    /\ phase = "resolver"
    /\ parser = Parser_new(source)
    /\ statements = <<>>
    /\ errors = <<>>
    /\ pc = 1
    /\ environment = Environment_new
    /\ out = <<>>
    /\ log = <<>>
    /\ outcome = Running
    /\ previous = <<>>
    /\ scanner = Scanner_new(<<>>)

ResolverCall ==
    /\ phase = "resolver"
    /\ \E p \in {[parser EXCEPT !.rlog = <<>>]} :
        \/ Len(p.scopes) < MaxScopes /\ parser' = begin_scope(p)
        \/ Len(p.scopes) > 1 /\ parser' = end_scope(p)
        \/ \E mutable, defined \in BOOLEAN : parser' = Declared(p, "x", mutable, defined)
        \/ parser' = Defined(p, "x", Resolver_define(p.scopes, "x"))
        \/ parser' = Resolved(p, "x", Resolver_resolve(p.scopes, "x"))
    /\ UNCHANGED <<source, phase, statements, errors, pc, environment, out, log,
                   outcome, previous, scanner>>

SpecResolver == ResolverInit /\ [][ResolverCall]_vars

(***************************************************************************)
(* The operator + alone (impl Add for Value, common/value.rs): the two     *)
(* operands are drawn from the values of each tag, Strings being the texts *)
(* over the characters a and 1.  log holds the last addition made.         *)
(***************************************************************************)
Values(tag) ==
    CASE tag = "Null" -> {Null}
      [] tag = "Boolean" -> {Boolean(FALSE), Boolean(TRUE)}
      [] tag = "Number" -> {Number(n) : n \in 0..MaxOperand} \cup {Rat(1, 2)}
      [] tag = "String" ->
            {String(text) : text \in UNION {[1..n -> {"a", "1"}] : n \in 0..MaxText}}

ValueInit ==
    /\ source = <<>>
    /\ phase = "value"
    /\ parser = Parser_new(source)
    /\ statements = <<>>
    /\ errors = <<>>
    /\ pc = 1
    /\ environment = Environment_new
    /\ out = <<>>
    /\ log = <<>>
    /\ outcome = Running
    /\ previous = <<>>
    /\ scanner = Scanner_new(<<>>)

\* val1 + val2
ValueAdd ==
    /\ phase = "value"
    /\ \E tag1, tag2 \in {"Null", "Boolean", "Number", "String"} :
        \E val1 \in Values(tag1), val2 \in Values(tag2) :
            log' = <<[ev |-> "add", left |-> val1, right |-> val2,
                      r |-> Value_add(val1, val2)]>>
    /\ UNCHANGED <<source, phase, parser, statements, errors, pc, environment, out,
                   outcome, previous, scanner>>

SpecValue == ValueInit /\ [][ValueAdd]_vars

(***************************************************************************)
(* The Scanner alone (lexer.rs): Scanner::new on every source of at most   *)
(* MaxBytes bytes of Bytes, then next() called again and again.            *)
(***************************************************************************)
LexerInit ==
    /\ source = <<>>
    /\ phase = "lexer"
    /\ parser = Parser_new(source)
    /\ statements = <<>>
    /\ errors = <<>>
    /\ pc = 1
    /\ environment = Environment_new
    /\ out = <<>>
    /\ log = <<>>
    /\ outcome = Running
    /\ previous = <<>>
    /\ \E bytes \in ByteSequences : scanner = Scanner_new(bytes)

ScannerNext ==
    /\ phase = "lexer"
    /\ scanner' = Scanner_next(scanner)
    /\ UNCHANGED <<source, phase, parser, statements, errors, pc, environment, out, log,
                   outcome, previous>>

SpecLexer == LexerInit /\ [][ScannerNext]_vars

(***************************************************************************)
(* Properties.  The record of the evaluation (log) and of the Resolver     *)
(* calls (parser.rlog) hold one event for each operation performed, with   *)
(* the state it was applied to and what it returned.                       *)
(***************************************************************************)
Events(kind) == {i \in DOMAIN log : log[i].ev = kind}
ResolverEvents(kind) == {i \in DOMAIN parser.rlog : parser.rlog[i].ev = kind}

\* the operator returns its left operand without looking at the right one
PassesThrough(event) ==
    \/ event.operator = "And" /\ ~is_truthy(event.left)
    \/ event.operator = "Or" /\ is_truthy(event.left)

\* C1: in x & y with x falsy, and in x | y with x truthy, y is never
\* evaluated (nothing is evaluated, assigned, called or printed between the
\* end of x and the end of the expression) and the result is x's value.
C1_ShortCircuit ==
    \A i \in Events("binary") :
        PassesThrough(log[i]) =>
            /\ log[i].endLen = log[i].leftLen
            /\ log[i].endEnv = log[i].leftEnv
            /\ log[i].endOut = log[i].leftOut
            /\ log[i].k = "Ok"
            /\ log[i].v = log[i].left

\* a pass-through operator whose right operand was evaluated all the same
C1_RightOperandEvaluated ==
    \E i \in Events("binary") :
        PassesThrough(log[i]) /\ log[i].endLen > log[i].leftLen

\* C2: every assignment that succeeds writes the binding a read finds: the
\* frame the Resolver's index selects is the innermost frame holding the
\* name, a read of the name right after yields the value assigned, and no
\* binding of another frame changes.
C2_AssignWritesWhatGetReads ==
    \A i \in Events("assign") :
        log[i].k = "Ok" =>
            LET before == log[i].before
                after == log[i].after
                innermost == InnermostFrame(before, log[i].name, Len(before))
                read == Environment_get(after, log[i].name)
            IN /\ log[i].index + 1 = innermost
               /\ read.k = "Ok" /\ read.v = log[i].value
               /\ Len(after) = Len(before)
               /\ \A j \in DOMAIN before : j # innermost => after[j] = before[j]

\* an assignment that succeeded in a frame that is not the innermost one
\* holding the name
C2_AssignedShadowedBinding ==
    \E i \in Events("assign") :
        /\ log[i].k = "Ok"
        /\ log[i].index + 1 #
               InnermostFrame(log[i].before, log[i].name, Len(log[i].before))

\* C3: the execution of a source that parsed without error never raises
\* UndeclaredVariable, from a read or from an assignment.
C3_ResolverSound ==
    /\ \A i \in Events("get") : log[i].kind # "UndeclaredVariable"
    /\ \A i \in Events("assign") : log[i].kind # "UndeclaredVariable"
    /\ outcome.e.kind # "UndeclaredVariable"

\* a source that parsed and whose execution ended on UndeclaredVariable
C3_UndeclaredAtRunTime ==
    /\ phase = "done"
    /\ errors = <<>>
    /\ outcome.k = "Err"
    /\ outcome.e.kind = "UndeclaredVariable"

\* the names a block declares with let among its own statements
LetNames(node) ==
    {node.statements[j].name : j \in {j \in DOMAIN node.statements :
        /\ node.statements[j].k = "VariableDeclaration"
        /\ node.statements[j].mutable}}

\* the block ran without calling a function: every assignment executed
\* inside it is an assignment written inside it
NoCallWithin(i) ==
    \A j \in (log[i].start + 1)..(i - 1) : log[j].ev # "call"

\* C4: a block that declares let x while an enclosing scope binds x leaves
\* the enclosing binding as it was (value and mutability), whatever is
\* declared or assigned inside the block, and a read of x after the block
\* yields what it yielded before the block.
C4_Shadowing ==
    \A i \in Events("block") :
        \A x \in LetNames(log[i].node) :
            LET before == log[i].before
                after == log[i].after
                outer == InnermostFrame(before, x, Len(before))
            IN (log[i].k = "Ok" /\ outer # 0 /\ NoCallWithin(i)) =>
                   /\ Len(after) = Len(before)
                   /\ after[outer][x] = before[outer][x]
                   /\ Environment_get(after, x) = Environment_get(before, x)

\* a block that shadowed x and left another value in the enclosing binding
C4_OuterBindingChanged ==
    \E i \in Events("block") :
        \E x \in LetNames(log[i].node) :
            LET before == log[i].before
                outer == InnermostFrame(before, x, Len(before))
            IN /\ log[i].k = "Ok" /\ outer # 0 /\ NoCallWithin(i)
               /\ Len(log[i].after) = Len(before)
               /\ log[i].after[outer][x] # before[outer][x]

\* the visible binding of name is immutable
VisibleConst(env, name) ==
    LET f == InnermostFrame(env, name, Len(env)) IN
    f # 0 /\ ~env[f][name].mutable

\* C5: an assignment to a name whose visible binding is const fails with the
\* immutable-variable error, from Resolver.define while parsing or from
\* Environment.assign while running, and leaves every binding as it was.
C5_Immutability ==
    /\ \A i \in ResolverEvents("define") :
           LET e == parser.rlog[i]
               sc == InnermostScope(e.scopes, e.name, Len(e.scopes))
           IN (sc # 0 /\ ~e.scopes[sc][e.name].mutable) =>
                  ~e.ok /\ e.kind = "ImmutableVariable"
    /\ \A i \in Events("assign") :
           VisibleConst(log[i].before, log[i].name) =>
               /\ log[i].k = "Err"
               /\ log[i].kind = "ImmutableVariable"
               /\ log[i].after = log[i].before

\* an assignment to a name whose visible binding is const that succeeded
C5_ConstAssigned ==
    \E i \in Events("assign") :
        VisibleConst(log[i].before, log[i].name) /\ log[i].k = "Ok"

\* the name is declared, its innermost declaration has no initializer, and
\* no assignment to it was resolved before the read
UninitializedAtParse(i) ==
    LET e == parser.rlog[i]
        sc == InnermostScope(e.scopes, e.name, Len(e.scopes))
    IN /\ sc # 0
       /\ ~e.scopes[sc][e.name].defined
       /\ \A j \in 1..(i - 1) :
              ~(parser.rlog[j].ev = "define" /\ parser.rlog[j].name = e.name)

UndeclaredAtParse(i) ==
    LET e == parser.rlog[i] IN InnermostScope(e.scopes, e.name, Len(e.scopes)) = 0

\* the visible binding of the name holds no value
UndefinedAtRunTime(i) ==
    LET f == InnermostFrame(log[i].env, log[i].name, Len(log[i].env)) IN
    f # 0 /\ log[i].env[f][log[i].name].value = <<>>

UndeclaredInEnvironment(i) ==
    InnermostFrame(log[i].env, log[i].name, Len(log[i].env)) = 0

ParseErrorKinds == {errors[j].kind : j \in DOMAIN errors}

C6_UndefinedRead ==
    /\ phase = "done"
    /\ outcome.k = "Err"
    /\ \E i \in Events("get") :
           UndefinedAtRunTime(i) /\ log[i].kind = "UndefinedVariable"

\* C7: a call of a function of n parameters with m # n arguments fails with
\* the error stating n expected and m found; no parameter is bound (the
\* frames are those before the call and one empty frame) and no statement
\* of the body is executed.
C7_ArityCheck ==
    \A i \in Events("call") :
        log[i].parameters # log[i].arguments =>
            /\ log[i].k = "Err"
            /\ log[i].e = ArityError(log[i].parameters, log[i].arguments)
            /\ \A f \in DOMAIN log[i].after :
                   log[i].after[f] =
                       IF f <= Len(log[i].before) THEN log[i].before[f] ELSE EmptyMap
            /\ \A j \in (log[i].start + 1)..(i - 1) : log[j].ev # "execute"
            /\ phase = "done" /\ outcome.k = "Err" /\ outcome.e = log[i].e

\* a call with one argument of a function of two parameters has returned
C7_ArityMismatch ==
    \E i \in Events("call") :
        log[i].parameters = 2 /\ log[i].arguments = 1 /\ log[i].k = "Err"

\* the statements that are malformed on their own: print, let = 2, )
Malformed ==
    {<<Tok("Print")>>, <<Tok("Let"), Tok("Equal"), Num(2)>>, <<Tok("RightParentheses")>>}

\* two malformed statements, the second one starting with a statement-start
\* keyword
TwoMalformed ==
    {first \o second : first \in Malformed,
                       second \in {m \in Malformed : m[1].tt \in StatementStart}}

\* C8: the parse of a source made of two malformed statements, the second
\* one starting with a statement-start keyword, returns one Multiple error
\* of exactly two entries in source order, one for each statement, after the
\* whole input was scanned.
C8_ErrorRecovery ==
    (phase = "done" /\ source \in TwoMalformed) =>
        /\ outcome.k = "ParseError"
        /\ outcome.err.multi
        /\ Len(outcome.err.errors) = 2
        /\ outcome.err.errors[1].at < outcome.err.errors[2].at
        /\ parser.pos = Len(source) + 1

\* the parse of two malformed statements returned a single entry
C8_SingleEntry ==
    /\ phase = "done"
    /\ source \in TwoMalformed
    /\ outcome.k = "ParseError"
    /\ Len(outcome.err.errors) = 1

\* C9: when BlockStatement.execute or Function.call returns, with a value or
\* with a runtime error (an arity mismatch included), the Environment has
\* the depth it had when the block or the call was entered.
C9_FrameLifetime ==
    /\ \A i \in Events("block") : Len(log[i].after) = Len(log[i].before)
    /\ \A i \in Events("call") : Len(log[i].after) = Len(log[i].before)

\* a block or a call returned and left its frame on the stack
C9_FrameLeft ==
    \E i \in Events("block") \cup Events("call") :
        Len(log[i].after) > Len(log[i].before)

\* the evaluation state after the first n top-level statements, each one
\* executed on the state the one before it left
RECURSIVE StateAfter(_)
StateAfter(n) ==
    IF n = 0 THEN [env |-> Environment_new, out |-> <<>>, log |-> <<>>]
    ELSE execute(statements[n], StateAfter(n - 1), MaxFuel).s

ReturnOf(n) == execute(statements[n], StateAfter(n - 1), MaxFuel)

Current == [env |-> environment, out |-> out, log |-> log]

\* C10: when the k-th top-level statement raises a runtime error, interpret
\* returns that error; what was done is what statements 1..k-1 and the failed
\* run of statement k did, no statement after k is executed, and interpret
\* reaches a statement only when every statement before it returned Ok.
C10_RuntimeErrorAborts ==
    /\ phase = "execute" =>
           /\ Current = StateAfter(pc - 1)
           /\ \A i \in 1..(pc - 1) : ReturnOf(i).k = "Ok"
    /\ (phase = "done" /\ outcome.k = "Err") =>
           /\ pc \in DOMAIN statements
           /\ \A i \in 1..(pc - 1) : ReturnOf(i).k = "Ok"
           /\ ReturnOf(pc).k = "Err"
           /\ outcome.e = ReturnOf(pc).e
           /\ Current = ReturnOf(pc).s
    /\ (phase = "done" /\ outcome.k = "Ok") =>
           /\ pc = Len(statements) + 1
           /\ \A i \in DOMAIN statements : ReturnOf(i).k = "Ok"

\* interpret returned the runtime error of a statement that is neither the
\* first nor the last, after the statements before it printed
C10_AbortedInTheMiddle ==
    /\ phase = "done"
    /\ outcome.k = "Err"
    /\ pc > 1
    /\ pc < Len(statements)
    /\ out # <<>>

\* C11: evaluating an arithmetic operator, a unary minus or a compound
\* assignment on operands outside the operator's domain returns a
\* RuntimeError to interpret's caller: interpret never ends in the panic of
\* an unwrap of the operator's Err
C11_InvalidOperandsAreErrors ==
    /\ outcome.e.kind # "UnwrapInvalidOperands"
    /\ \A i \in Events("binary") : log[i].k # "Panic"

\* interpret ended in the panic of (left op right).unwrap()
C11_UnwrapPanicked ==
    /\ phase = "done"
    /\ outcome.k = "Panic"
    /\ outcome.e.kind = "UnwrapInvalidOperands"

\* the element at the 0-based position i of a String or an Array
ElementAt(target, i) ==
    IF target.t = "String" THEN String(<<target.v[i + 1]>>) ELSE target.v[i + 1]

\* the index events of a String or an Array by an integer
IntegerIndexings ==
    {i \in Events("index") :
        /\ log[i].target.t \in {"String", "Array"}
        /\ log[i].index.t = "Number"
        /\ log[i].index.d = 1}

\* C12: indexing a String or an Array of length n by an integer i yields
\* element i when 0 <= i < n and element n + i when -n <= i < 0, and fails
\* with a runtime error when i >= n or i < -n
C12_IndexMapping ==
    \A e \in IntegerIndexings :
        LET n == Len(log[e].target.v)
            i == log[e].index.v
        IN /\ (0 <= i /\ i < n) =>
                log[e].k = "Ok" /\ log[e].v = ElementAt(log[e].target, i)
           /\ (-n <= i /\ i < 0) =>
                log[e].k = "Ok" /\ log[e].v = ElementAt(log[e].target, n + i)
           /\ (i >= n \/ i < -n) => log[e].k = "Err"

\* an index past the end, or before the start, of an Array or a String
\* panicked
C12_OutOfRangePanicked ==
    \E e \in IntegerIndexings :
        /\ log[e].k = "Panic"
        /\ \/ log[e].index.v >= Len(log[e].target.v)
           \/ log[e].index.v < -Len(log[e].target.v)

Literal(token) == [k |-> "Literal", v |-> token.v]
Binary(left, operator, right) ==
    [k |-> "Binary", left |-> left, operator |-> operator, right |-> right]

\* the value of x operator y
Arith(operator, x, y) ==
    CASE operator = "Plus" -> NumAdd(x, y)
      [] operator = "Minus" -> NumAdd(x, NumNeg(y))
      [] operator = "Star" -> NumMul(x, y)
      [] operator = "Slash" -> NumDiv(x, y)

\* the operator of the first binds looser than the operator of the second
Looser(op1, op2) == op1 \in {"Plus", "Minus"} /\ op2 \in {"Star", "Slash"}

\* C13: print a op1 b op2 c parses to the tree a op1 (b op2 c) when op1 is
\* additive and op2 multiplicative, and to (a op1 b) op2 c otherwise
\* (operators of one level associate to the left), and prints the value of
\* that tree: print 1 + 2 * 3 prints 7
C13_Precedence ==
    (source \in Arithmetic(MaxOperand) /\ phase # "parse") =>
        LET a == source[2]
            op1 == source[3].tt
            b == source[4]
            op2 == source[5].tt
            c == source[6]
        IN /\ errors = <<>>
           /\ Len(statements) = 1
           /\ statements[1].k = "PrintStatement"
           /\ statements[1].expression =
                IF Looser(op1, op2)
                THEN Binary(Literal(a), op1, Binary(Literal(b), op2, Literal(c)))
                ELSE Binary(Binary(Literal(a), op1, Literal(b)), op2, Literal(c))
           /\ phase = "done" =>
                /\ outcome.k = "Ok"
                /\ out = <<IF Looser(op1, op2)
                           THEN Arith(op1, a.v, Arith(op2, b.v, c.v))
                           ELSE Arith(op2, Arith(op1, a.v, b.v), c.v)>>
                /\ (a.v = Number(1) /\ op1 = "Plus" /\ b.v = Number(2)
                        /\ op2 = "Star" /\ c.v = Number(3)) => out = <<Number(7)>>

\* print 1 + 2 * 3 printed 7
C13_SevenPrinted ==
    /\ phase = "done"
    /\ source = <<Tok("Print"), Num(1), Tok("Plus"), Num(2), Tok("Star"), Num(3)>>
    /\ statements[1].expression.operator = "Plus"
    /\ out = <<Number(7)>>

\* the evaluations of an assignment whose value is an assignment
Chains ==
    {i \in Events("evaluate") :
        /\ log[i].k = "Assignment"
        /\ i + 1 \in Events("evaluate")
        /\ log[i + 1].k = "Assignment"}

\* the value Environment::get reads for name, <<>> when it reads none
ValueRead(env, name) ==
    IF Environment_get(env, name).k = "Ok" THEN <<Environment_get(env, name).v>>
    ELSE <<>>

\* C14: a = b = e evaluates as a = (b = e): e is evaluated once, its value is
\* assigned to b and then to a, and both are left bound to that value
C14_RightAssociative ==
    \A i \in Chains :
        \E j \in Events("assign") :
            /\ j > i + 1
            /\ j + 1 \in Events("assign")
            /\ \A m \in (i + 2)..(j - 1) : log[m].ev # "assign"
            /\ (log[i + 2].ev = "evaluate" /\ log[i + 2].k = "Literal") => j = i + 3
            /\ log[j].k = "Ok"
            /\ log[j + 1].k = "Ok"
            /\ log[j + 1].value = log[j].value
            /\ log[j + 1].name # log[j].name
            /\ ValueRead(log[j + 1].after, log[j].name) = <<log[j].value>>
            /\ ValueRead(log[j + 1].after, log[j + 1].name) = <<log[j].value>>

\* a = b = 3 with a and b declared by let in the body of a function ended
\* in the error of the first assignment
C14_ChainAborted ==
    \E i \in Chains :
        /\ log[i + 2].ev = "evaluate"
        /\ log[i + 3].ev = "assign"
        /\ log[i + 3].k = "Err"
        /\ phase = "done"
        /\ outcome.k = "Err"

\* a = b = 3 assigned 3 to b, then to a, and printed 3, 3, 3
C14_BothAssigned ==
    /\ phase = "done"
    /\ outcome.k = "Ok"
    /\ out = <<Number(3), Number(3), Number(3)>>
    /\ \E i \in Chains :
        /\ log[i + 3].ev = "assign" /\ log[i + 3].name = "b"
        /\ log[i + 4].ev = "assign" /\ log[i + 4].name = "a"

UninitializedThenAssigned ==
    /\ Len(source) >= 5
    /\ SubSeq(source, 1, 5) = <<Tok("Let"), Id("x"), Id("x"), Tok("Equal"), Num(2)>>

\* C16: after let x with no initializer and the assignment x = 2, the
\* parser accepts the assignment and a later read of x in the same scope,
\* and the read evaluates to 2
C16_AssignedIsReadable ==
    UninitializedThenAssigned =>
        /\ \A i \in DOMAIN errors : errors[i].kind # "UninitializedVariable"
        /\ (phase = "done" /\ Len(source) = 7 /\ source[6] = Tok("Print")
                /\ source[7] = Id("x")) =>
              outcome.k = "Ok" /\ out = <<Number(2)>>

\* the parser rejected the x of x = 2 after let x as the read of an
\* uninitialized variable, and interpret returned the parse error
C16_AssignmentRejected ==
    /\ UninitializedThenAssigned
    /\ phase = "done"
    /\ outcome.k = "ParseError"
    /\ \E i \in DOMAIN errors :
        errors[i].kind = "UninitializedVariable" /\ errors[i].at = 3

\* the scopes of the stack that hold name, by 1-based position
Holders(scopes, name) == {i \in DOMAIN scopes : name \in DOMAIN scopes[i]}

\* the entry the innermost scope holding name has for it
InnermostEntry(scopes, name) ==
    scopes[CHOOSE i \in Holders(scopes, name) :
                \A j \in Holders(scopes, name) : j <= i][name]

SelfInitialized(q) ==
    /\ q + 3 <= Len(source)
    /\ source[q].tt \in {"Let", "Const"}
    /\ source[q + 1].tt = "Identifier"
    /\ source[q + 2].tt = "Equal"
    /\ source[q + 3] = source[q + 1]

\* the Resolver.resolve calls made for the initializer of the declaration at q
SelfReads(q) ==
    {i \in ResolverEvents("resolve") :
        parser.rlog[i].pos = q + 4 /\ parser.rlog[i].name = source[q + 1].v.v}

\* the Resolver.declare calls made for the declaration at q before call i
DeclaredBefore(q, i) ==
    {j \in ResolverEvents("declare") :
        /\ j < i
        /\ parser.rlog[j].name = source[q + 1].v.v
        /\ parser.rlog[j].pos > q
        /\ parser.rlog[j].pos <= q + 4}

\* every VariableDeclaration of the statement holds the index of the resolver
\* scope it is written in, the statement being at the given scope depth
RECURSIVE ScopeIsDepth(_, _)
ScopeIsDepth(node, depth) ==
    CASE node.k = "VariableDeclaration" -> node.scope = depth
      [] node.k = "Block" ->
            \A i \in DOMAIN node.statements : ScopeIsDepth(node.statements[i], depth + 1)
      [] node.k = "FunctionDeclaration" -> ScopeIsDepth(node.body, depth + 1)
      [] node.k = "IfStatement" ->
            /\ ScopeIsDepth(node.then_branch, depth)
            /\ \A i \in DOMAIN node.else_branch : ScopeIsDepth(node.else_branch[i], depth)
      [] node.k = "WhileStatement" -> ScopeIsDepth(node.body, depth)
      [] OTHER -> TRUE

\* C18 as stated: the parser calls Resolver.declare for x before it parses
\* the initializer of `let x = <init>`, so the read of x in `let x = x` is
\* made with x declared and gives no parse error, and the scope index of
\* the VariableDeclaration is the index of the innermost resolver scope
C18_DeclaredBeforeInitializer ==
    /\ \A q \in DOMAIN source : SelfInitialized(q) =>
            \A i \in SelfReads(q) :
                /\ DeclaredBefore(q, i) # {}
                /\ parser.rlog[i].ok
    /\ \A i \in DOMAIN statements : ScopeIsDepth(statements[i], 0)

\* C18: the parser parses the initializer of `let x = <init>` before it
\* calls Resolver.declare for x, so the read of x in `let x = x` is made
\* without this declaration: with no x in any scope it is rejected with the
\* undeclared-variable parse error, and the declare call follows only an
\* initializer that parsed; the scope index of the VariableDeclaration is
\* the index of the innermost resolver scope at the declare call
C18_InitializerBeforeDeclare ==
    /\ \A q \in DOMAIN source : SelfInitialized(q) =>
            \A i \in SelfReads(q) :
                LET call == parser.rlog[i] IN
                /\ DeclaredBefore(q, i) = {}
                /\ Holders(call.scopes, call.name) = {} =>
                        ~call.ok /\ call.kind = "UndeclaredVariable"
                /\ \A j \in ResolverEvents("declare") :
                        (parser.rlog[j].pos = q + 4 /\ parser.rlog[j].name = call.name) =>
                            /\ j > i
                            /\ call.ok
                            /\ parser.rlog[j].index = Len(call.scopes) - 1
    /\ \A i \in DOMAIN statements : ScopeIsDepth(statements[i], 0)

\* `let x = x` with no other x ended in the undeclared-variable parse error,
\* nothing being declared
C18_SelfReadUndeclared ==
    /\ source = <<Tok("Let"), Id("x"), Tok("Equal"), Id("x")>>
    /\ phase = "done"
    /\ outcome.k = "ParseError"
    /\ \E i \in DOMAIN errors : errors[i].kind = "UndeclaredVariable"
    /\ ResolverEvents("declare") = {}
    /\ ResolverEvents("resolve") # {}

\* C19: Resolver.define(name) decides on the innermost scope that holds
\* name: it returns that scope's 0-based index when the entry is mutable and
\* fails with the immutable-variable error when it is not, even when an
\* outer scope holds a mutable entry of name; it fails with the
\* undeclared-variable error when no scope holds name; the scope stack after
\* the call is the one before it
C19_Define ==
    \A i \in ResolverEvents("define") :
        LET call == parser.rlog[i]
            holders == Holders(call.scopes, call.name)
        IN /\ holders = {} => ~call.ok /\ call.kind = "UndeclaredVariable"
           /\ (holders # {} /\ InnermostEntry(call.scopes, call.name).mutable) =>
                 /\ call.ok
                 /\ call.index + 1 \in holders
                 /\ \A j \in holders : j <= call.index + 1
           /\ (holders # {} /\ ~InnermostEntry(call.scopes, call.name).mutable) =>
                 ~call.ok /\ call.kind = "ImmutableVariable"
           /\ (phase = "resolver" /\ i = Len(parser.rlog)) => parser.scopes = call.scopes

\* define was called on a stack whose innermost entry of the name is
\* immutable while an outer scope holds a mutable one, and refused
C19_InnerImmutableOuterMutable ==
    \E i \in ResolverEvents("define") :
        LET call == parser.rlog[i] IN
        /\ ~call.ok
        /\ call.kind = "ImmutableVariable"
        /\ \E j \in Holders(call.scopes, call.name) : call.scopes[j][call.name].mutable

\* define was called on a stack no scope of which holds the name
C19_DefineUndeclared ==
    \E i \in ResolverEvents("define") :
        /\ Holders(parser.rlog[i].scopes, parser.rlog[i].name) = {}
        /\ parser.rlog[i].kind = "UndeclaredVariable"

\* the source starts with function p(a) { a = 2 print a }
ParameterAssigned ==
    /\ Len(source) >= 12
    /\ SubSeq(source, 1, 12) =
         <<Tok("Function"), Id("p"), Tok("LeftParentheses"), Id("a"),
           Tok("RightParentheses"), Tok("LeftBrace"), Id("a"), Tok("Equal"), Num(2),
           Tok("Print"), Id("a"), Tok("RightBrace")>>

\* the value of the visible binding of name
VisibleValue(env, name) == env[InnermostFrame(env, name, Len(env))][name].value

\* C20: an assignment to a parameter in the body of its function never
\* changes the parameter's value and is rejected with the immutable-variable
\* error, by Resolver.define while the body is parsed or by
\* Environment.assign when the assignment executes, whatever the block
\* depth of the call: every binding is left as it was, and the call of p
\* ends interpret with that error, nothing printed
C20_ParametersImmutable ==
    ParameterAssigned =>
        /\ \A i \in Events("assign") :
               (log[i].name = "a" /\ VisibleConst(log[i].before, "a")) =>
                   /\ VisibleValue(log[i].after, "a") = VisibleValue(log[i].before, "a")
                   /\ log[i].k = "Err"
                   /\ log[i].kind = "ImmutableVariable"
                   /\ log[i].after = log[i].before
        /\ (phase = "done" /\ Len(source) > 12) =>
               /\ out = <<>>
               /\ \/ outcome.k = "Err" /\ outcome.e.kind = "ImmutableVariable"
                  \/ \E i \in DOMAIN errors : errors[i].kind = "ImmutableVariable"

\* p was called from a block that declares a: the assignment to the
\* parameter was accepted, changed the a of the block and left the parameter
C20_AssignedTheCallersVariable ==
    /\ ParameterAssigned
    /\ phase = "done"
    /\ outcome.k = "Ok"
    /\ out = <<Number(1), Number(2)>>
    /\ \E i \in Events("assign") :
           /\ log[i].name = "a"
           /\ VisibleConst(log[i].before, "a")
           /\ log[i].k = "Ok"
           /\ VisibleValue(log[i].after, "a") = VisibleValue(log[i].before, "a")

\* C21: the resolver scopes are balanced: whatever a block or a function
\* declaration holds (a closing brace, the end of the input, parse errors),
\* its parse function pops every scope it pushed, so between the statements
\* of the program, and after the last, the resolver stack holds the global
\* scope alone
C21_ScopesBalanced ==
    phase \in {"parse", "execute", "done"} => Len(parser.scopes) = 1

\* function_statement returned an error after begin_scope: the scope of the
\* parameters is still on the stack and the statement after the function
\* read the parameter
C21_ParameterScopeLeft ==
    /\ source = <<Tok("Function"), Id("f"), Tok("LeftParentheses"), Id("a"),
                  Tok("RightParentheses"), Num(1), Tok("Print"), Id("a")>>
    /\ phase = "done"
    /\ Len(parser.scopes) = 2
    /\ \E i \in ResolverEvents("resolve") :
           /\ parser.rlog[i].name = "a"
           /\ parser.rlog[i].ok
           /\ Holders(parser.rlog[i].scopes, "a") = {2}
    /\ \A i \in DOMAIN errors : errors[i].kind # "UndeclaredVariable"

\* a block with a parse error and its closing brace was parsed to the end
\* of the input and its scope is still on the stack
C21_BlockScopeLeft ==
    /\ source = <<Tok("LeftBrace"), Tok("Plus"), Tok("RightBrace"), Tok("Print"), Num(1)>>
    /\ phase = "done"
    /\ Len(parser.scopes) = 2

\* C22: when the statement parsed by program() fails, synchronize leaves the
\* parser either at the end of the tokens or before a token of type class,
\* function, let, const, if, while, print, return or `{`, which it does not
\* consume; every token between the place the statement stopped at and that
\* token has none of those types, and nothing else of the parser changes
C22_SynchronizePostcondition ==
    [][Len(errors') > Len(errors) =>
          \A r \in {statement(parser)} :
              /\ ~r.ok
              /\ parser'.pos >= r.p.pos
              /\ peek(parser') \in StatementStart \cup {"EOF"}
              /\ \A q \in r.p.pos..(parser'.pos - 1) : source[q].tt \notin StatementStart
              /\ parser' = [r.p EXCEPT !.pos = parser'.pos]]_vars

\* `let = print`: the declaration failed at `=`, synchronize discarded it and
\* stopped before print
C22_StoppedBeforePrint ==
    /\ source = <<Tok("Let"), Tok("Equal"), Tok("Print")>>
    /\ phase = "parse"
    /\ Len(errors) = 1
    /\ errors[1].at = 2
    /\ parser.pos = 3

\* the statement after the m-th statement of the block of event i was
\* executed after a return statement was
ExecutedAfterReturn(i, m) ==
    \E j, j2 \in (log[i].start + 1)..(i - 1) :
        /\ j < j2
        /\ log[j].ev = "execute" /\ log[j].k = "ReturnStatement"
        /\ log[j2].ev = "execute" /\ log[j2].k = log[i].node.statements[m + 1].k

\* C23: return does not unwind: a block that ran without error executed the
\* statements that follow a return statement in it; a function whose body is
\* { return 1 print 2 3 } prints 2 and its call has the value 3; a while
\* body that starts with a return keeps iterating until its condition is
\* false; a return in a nested block does not end the enclosing block
C23_ReturnDoesNotUnwind ==
    /\ \A i \in Events("block") :
           \A m \in 1..(Len(log[i].node.statements) - 1) :
               (log[i].k = "Ok" /\ log[i].node.statements[m].k = "ReturnStatement") =>
                   ExecutedAfterReturn(i, m)
    /\ (phase = "done" /\ Len(source) = 15 /\ source[2] = Id("r")) =>
           outcome.k = "Ok" /\ out = <<Number(2), Number(3)>>
    /\ (phase = "done" /\ Len(source) = 17 /\ source[2] = Id("i")) =>
           outcome.k = "Ok" /\ out = <<Number(2)>>
    /\ (phase = "done" /\ Len(source) = 8 /\ source[3] = Tok("Return")) =>
           outcome.k = "Ok" /\ out = <<Number(2)>>

\* the call of r returned: 2 was printed by the statement after the return
\* and the call's value, printed next, is 3, not the returned 1
C23_LastStatementIsTheValue ==
    /\ phase = "done"
    /\ Len(source) = 15
    /\ source[2] = Id("r")
    /\ out = <<Number(2), Number(3)>>
    /\ \E i \in Events("block") :
           /\ log[i].node.statements[1].k = "ReturnStatement"
           /\ ExecutedAfterReturn(i, 1)

\* programs whose sub-expressions assign to a, by which the order of their
\* evaluation shows
EvaluationOrder == <<
    \* let a = 0 print (a = 1) - (a = a + 2) print a
    <<Tok("Let"), Id("a"), Tok("Equal"), Num(0), Tok("Print"),
      Tok("LeftParentheses"), Id("a"), Tok("Equal"), Num(1), Tok("RightParentheses"),
      Tok("Minus"), Tok("LeftParentheses"), Id("a"), Tok("Equal"), Id("a"),
      Tok("Plus"), Num(2), Tok("RightParentheses"), Tok("Print"), Id("a")>>,
    \* function f(x, y) { print x print y } let a = 0 f(a = 1, a = a + 1)
    <<Tok("Function"), Id("f"), Tok("LeftParentheses"), Id("x"), Tok("Comma"),
      Id("y"), Tok("RightParentheses"), Tok("LeftBrace"), Tok("Print"), Id("x"),
      Tok("Print"), Id("y"), Tok("RightBrace"), Tok("Let"), Id("a"), Tok("Equal"),
      Num(0), Id("f"), Tok("LeftParentheses"), Id("a"), Tok("Equal"), Num(1),
      Tok("Comma"), Id("a"), Tok("Equal"), Id("a"), Tok("Plus"), Num(1),
      Tok("RightParentheses")>>,
    \* let a = 0 let b = [a = 1, a = a + 1] print b[0] print b[1]
    <<Tok("Let"), Id("a"), Tok("Equal"), Num(0), Tok("Let"), Id("b"), Tok("Equal"),
      Tok("LeftBracket"), Id("a"), Tok("Equal"), Num(1), Tok("Comma"), Id("a"),
      Tok("Equal"), Id("a"), Tok("Plus"), Num(1), Tok("RightBracket"), Tok("Print"),
      Id("b"), Tok("LeftBracket"), Num(0), Tok("RightBracket"), Tok("Print"),
      Id("b"), Tok("LeftBracket"), Num(1), Tok("RightBracket")>>,
    \* let a = 1 a += (a = 5) print a
    <<Tok("Let"), Id("a"), Tok("Equal"), Num(1), Id("a"), Tok("PlusEqual"),
      Tok("LeftParentheses"), Id("a"), Tok("Equal"), Num(5), Tok("RightParentheses"),
      Tok("Print"), Id("a")>>,
    \* function g(x) { } let a = 0 g(a = 1, a = 2)
    <<Tok("Function"), Id("g"), Tok("LeftParentheses"), Id("x"),
      Tok("RightParentheses"), Tok("LeftBrace"), Tok("RightBrace"), Tok("Let"),
      Id("a"), Tok("Equal"), Num(0), Id("g"), Tok("LeftParentheses"), Id("a"),
      Tok("Equal"), Num(1), Tok("Comma"), Id("a"), Tok("Equal"), Num(2),
      Tok("RightParentheses")>>,
    \* let a = 0 print 1[0] + (a = 1)
    <<Tok("Let"), Id("a"), Tok("Equal"), Num(0), Tok("Print"), Num(1),
      Tok("LeftBracket"), Num(0), Tok("RightBracket"), Tok("Plus"),
      Tok("LeftParentheses"), Id("a"), Tok("Equal"), Num(1), Tok("RightParentheses")>>,
    \* function f(x, y) { print x } let a = 0 f(1[0], a = 1)
    <<Tok("Function"), Id("f"), Tok("LeftParentheses"), Id("x"), Tok("Comma"),
      Id("y"), Tok("RightParentheses"), Tok("LeftBrace"), Tok("Print"), Id("x"),
      Tok("RightBrace"), Tok("Let"), Id("a"), Tok("Equal"), Num(0), Id("f"),
      Tok("LeftParentheses"), Num(1), Tok("LeftBracket"), Num(0),
      Tok("RightBracket"), Tok("Comma"), Id("a"), Tok("Equal"), Num(1),
      Tok("RightParentheses")>>,
    \* let a = 0 print [1[0], a = 1]
    <<Tok("Let"), Id("a"), Tok("Equal"), Num(0), Tok("Print"), Tok("LeftBracket"),
      Num(1), Tok("LeftBracket"), Num(0), Tok("RightBracket"), Tok("Comma"), Id("a"),
      Tok("Equal"), Num(1), Tok("RightBracket")>>,
    \* let a = 0 a = 1[0]
    <<Tok("Let"), Id("a"), Tok("Equal"), Num(0), Id("a"), Tok("Equal"), Num(1),
      Tok("LeftBracket"), Num(0), Tok("RightBracket")>>
>>

IsAssign(event) == event.ev = "assign"

\* the values assigned so far, in the order of the assignments
AssignedValues ==
    [i \in DOMAIN SelectSeq(log, IsAssign) |-> SelectSeq(log, IsAssign)[i].value]

\* interpret returned on the n-th program of EvaluationOrder
Evaluated(n) == phase = "done" /\ source = EvaluationOrder[n]

\* C24: a binary expression evaluates its left operand before its right one,
\* a call its callee, then its arguments in source order, and then checks
\* the arity; an array literal evaluates its elements in source order; an
\* assignment, plain or compound, evaluates its right-hand side before it
\* reads or writes the target; after a runtime error of a sub-expression no
\* later sub-expression is evaluated
C24_EvaluationOrder ==
    /\ \A i \in Events("binary") : log[i].leftLen <= log[i].endLen /\ log[i].endLen < i
    /\ Evaluated(1) => out = <<Number(-2), Number(3)>> /\ AssignedValues = <<Number(1), Number(3)>>
    /\ Evaluated(2) => out = <<Number(1), Number(2)>> /\ AssignedValues = <<Number(1), Number(2)>>
    /\ Evaluated(3) => out = <<Number(1), Number(2)>> /\ AssignedValues = <<Number(1), Number(2)>>
    /\ Evaluated(4) => out = <<Number(10)>> /\ AssignedValues = <<Number(5), Number(10)>>
    /\ Evaluated(5) =>
           /\ outcome.k = "Err" /\ outcome.e.kind = "ArityMismatch"
           /\ AssignedValues = <<Number(1), Number(2)>>
    /\ \A n \in 6..9 : Evaluated(n) =>
           /\ outcome.k = "Err" /\ outcome.e.kind = "InvalidIndexOperator"
           /\ AssignedValues = <<>>
           /\ Events("call") = {}
           /\ out = <<>>

\* the operands of - assigned 1 and then 3 to a, and the difference printed
\* is 1 - 3
C24_LeftThenRight ==
    /\ Evaluated(1)
    /\ AssignedValues = <<Number(1), Number(3)>>
    /\ out = <<Number(-2), Number(3)>>

AssignmentOperator == {"Equal", "PlusEqual", "MinusEqual", "StarEqual", "SlashEqual"}

\* the statement the parser is about to parse is an expression statement
\* whose conditional expression c is followed by an assignment operator
TargetParsed(c) ==
    /\ phase = "parse"
    /\ peek(parser) \notin StatementStart \cup {"EOF"}
    /\ c.ok
    /\ peek(c.p) \in AssignmentOperator

\* what assignment_expression returns for a target that is not an identifier:
\* a parse error at the operator, the operator consumed, no call of the
\* Resolver and no node
TargetRefused(c, r) ==
    /\ ~r.ok
    /\ r.err.errors = <<[kind |-> "ExpectedIdentifierBefore", at |-> c.p.pos]>>
    /\ r.p = next(c.p)
    /\ r.node = NoNode

\* what assignment_expression returns for the identifier c: Resolver.define is
\* its first call of the Resolver after the target, a refusal of define is
\* the error returned, and a node returned is an AssignmentExpression of the
\* identifier, the operator and the index define returned
TargetDefined(c, r) ==
    /\ Len(r.p.rlog) > Len(c.p.rlog)
    /\ \A call \in {r.p.rlog[Len(c.p.rlog) + 1]} :
           /\ call.ev = "define"
           /\ call.name = c.node.name
           /\ call.scopes = c.p.scopes
           /\ ~call.ok => ~r.ok /\ r.err.errors = <<[kind |-> call.kind, at |-> c.p.pos]>>
           /\ r.ok => /\ call.ok
                      /\ r.node.k = "Assignment"
                      /\ r.node.name = c.node.name
                      /\ r.node.operator = peek(c.p)
                      /\ r.node.scope = call.index

\* C25: when the expression to the left of =, +=, -=, *= or /= is not an
\* identifier, assignment_expression fails with a parse error and produces
\* no AssignmentExpression; when it is an identifier, Resolver.define checks
\* it first and the AssignmentExpression produced carries the index define
\* returned
C25_TargetIsIdentifier ==
    \A c \in {conditional_expression(parser)} :
        TargetParsed(c) =>
            \A r \in {assignment_expression(parser)} :
                IF c.node.k = "Identifier" THEN TargetDefined(c, r) ELSE TargetRefused(c, r)

\* the statement a[0] = 2 is about to be parsed, its target an index
\* expression
C25_IndexTarget ==
    /\ source = <<Tok("Let"), Id("a"), Tok("Equal"), Tok("LeftBracket"), Num(1),
                  Tok("RightBracket"), Id("a"), Tok("LeftBracket"), Num(0),
                  Tok("RightBracket"), Tok("Equal"), Num(2)>>
    /\ parser.pos = 7
    /\ \A c \in {conditional_expression(parser)} :
           /\ TargetParsed(c)
           /\ c.node.k = "Postfix"
           /\ TargetRefused(c, assignment_expression(parser))

\* C27: every call of statement() on a token, at any place of the source and
\* also when it returns an error, consumes at least one token, and every
\* iteration of the loop of program() moves the parser forward by at least
\* that, never past the end of the tokens: the parse ends after at most
\* Len(source) iterations
C27_ParserProgress ==
    [][(phase = "parse" /\ peek(parser) # "EOF") =>
          /\ \A q \in DOMAIN source :
                 \A r \in {statement([parser EXCEPT !.pos = q])} :
                     r.p.pos > q /\ r.p.pos <= Len(source) + 1
          /\ \A r \in {statement(parser)} :
                 /\ parser'.pos >= r.p.pos
                 /\ parser'.pos <= Len(source) + 1
                 /\ ~r.ok => parser' = synchronize(r.p)
          /\ phase' = "parse"]_vars

\* `} print`: the statement that starts at } returned an error and consumed
\* the }, and the parser stands before print
C27_ErrorConsumedAToken ==
    /\ source = <<Tok("RightBrace"), Tok("Print")>>
    /\ phase = "parse"
    /\ Len(errors) = 1
    /\ errors[1].at = 1
    /\ parser.pos = 2

\* C28: whenever an AssignmentExpression executes, the scope index it holds
\* is less than the number of frames of the Environment, so that
\* Environment.assign indexes a frame of the stack and interpret never ends
\* in an index out of bounds
C28_ScopeIndexIsAFrame ==
    /\ \A i \in Events("assign") :
           log[i].index < Len(log[i].before) /\ log[i].k # "Panic"
    /\ ~(outcome.k = "Panic" /\ outcome.e.kind = "IndexOutOfBounds")

\* a function declared in a block and kept in a global variable was called
\* from the top level: the assignment in its body held the index 3 with
\* three frames on the stack
C28_FrameOutsideTheStack ==
    /\ phase = "done"
    /\ errors = <<>>
    /\ outcome.k = "Panic"
    /\ outcome.e.kind = "IndexOutOfBounds"
    /\ \E i \in Events("assign") :
           /\ log[i].name = "y"
           /\ log[i].index = 3
           /\ Len(log[i].before) = 3
           /\ log[i].k = "Panic"

\* the comparisons == and != the run has evaluated
Comparisons ==
    {i \in 1..Len(log) :
        log[i].ev = "binary" /\ log[i].operator \in {"EqualEqual", "BangEqual"}}

SameValue(a, b) == a.t = b.t /\ a = b

\* C30: equality is reflexive and != is its negation: for every value v of
\* every tag, v == v is Boolean(true) and v != v is Boolean(false); values of
\* different tags compare unequal under ==, and no comparison raises an error.
C30_EqualityReflexive ==
    \A i \in Comparisons :
        /\ log[i].k = "Ok"
        /\ SameValue(log[i].left, log[i].right)
                => log[i].v = Boolean(log[i].operator = "EqualEqual")
        /\ log[i].left.t # log[i].right.t
                => log[i].v = Boolean(log[i].operator = "BangEqual")

\* a function value compared with itself: == has answered false
C30_FunctionUnequalToItself ==
    \E i \in Comparisons :
        /\ log[i].operator = "EqualEqual"
        /\ log[i].left.t = "Function"
        /\ SameValue(log[i].left, log[i].right)
        /\ log[i].k = "Ok"
        /\ log[i].v = Boolean(FALSE)

\* the text of an operand of +: a String's characters, a Number's to_string
TextOf(value) == IF value.t = "String" THEN value.v ELSE to_string(value)

Concatenations ==
    {i \in 1..Len(log) :
        /\ log[i].ev = "add"
        /\ {log[i].left.t, log[i].right.t} \subseteq {"String", "Number"}
        /\ "String" \in {log[i].left.t, log[i].right.t}}

\* C29: + with a String operand and a Number or String operand is the String
\* of the left operand's text followed by the right operand's text, for
\* Number + String, String + Number and String + String.
C29_ConcatenationKeepsOrder ==
    \A i \in Concatenations :
        /\ log[i].r.ok
        /\ log[i].r.v = String(TextOf(log[i].left) \o TextOf(log[i].right))

\* Number + String has answered the String's text followed by the Number's
C29_NumberAfterString ==
    \E i \in Concatenations :
        /\ log[i].left.t = "Number"
        /\ log[i].right.t = "String"
        /\ log[i].r.ok
        /\ log[i].r.v = String(log[i].right.v \o to_string(log[i].left))
        /\ log[i].r.v # String(to_string(log[i].left) \o log[i].right.v)

\* the newline bytes of the source before the byte at index first
NewlinesBefore(first) ==
    Cardinality({i \in 1..(first - 1) : scanner.source[i] = 10})

\* C26: every token the Scanner has produced carries the line 1 + the number
\* of newline bytes before its first byte (for a Newline token, the line it
\* ends), whatever comments and string literals the source holds.
C26_TokenLines ==
    \A i \in 1..Len(scanner.tokens) :
        scanner.tokens[i].line = 1 + NewlinesBefore(scanner.tokens[i].first)

\* a String token whose text holds a newline carries the line of its end
C26_StringOnItsLastLine ==
    \E i \in 1..Len(scanner.tokens) :
        /\ scanner.tokens[i].tt = "String"
        /\ 10 \in {scanner.tokens[i].value[j] : j \in 1..Len(scanner.tokens[i].value)}
        /\ scanner.tokens[i].line > 1 + NewlinesBefore(scanner.tokens[i].first)

=============================================================================
